---- MODULE Spec2Model ----
(***************************************************************************)
(* Audio engine of the Sensory Bridge firmware (ESP32-S3 build): sample    *)
(* conditioning and the loudness-zone state machine of                     *)
(* acquire_sample_chunk, the silence gate, AGC and VU estimator of         *)
(* calculate_vu, the main loop on core 0 and the LED task on core 1.       *)
(*                                                                         *)
(* Number representations                                                  *)
(*   SQ15x16   the 32-bit internal value (value * 65536), as the           *)
(*             FixedPoints library stores it                               *)
(*   float     a decimal fixed-point integer; the unit is stated at each   *)
(*             variable (1/1000 unless the value is always an integer),    *)
(*             products and quotients truncate toward zero                 *)
(*   uint32 differences of timestamps are capped at 2147483647, above      *)
(*             every threshold they are compared with                      *)
(***************************************************************************)
EXTENDS Integers, Sequences, FiniteSets, TLC

----------------------------------------------------------------------------
(* Bounds of the model *)

\* CONFIG.SAMPLES_PER_CHUNK is 128 on the device (globals.h:100)
SAMPLES_PER_CHUNK == 2
\* SAMPLE_HISTORY_LENGTH is 4096 on the device (constants.h:11)
SAMPLE_HISTORY_LENGTH == 5
\* engine cycles explored by the bounded specifications
MaxCycles == 3
\* engine cycles explored where the silence gate has to debounce
GateCycles == 11
\* the cycle counter stops counting here
CycleCap == 16
\* calibration samples the ambient level while NOISE_SAMPLE_FIRST <=
\* noise_iterations <= NOISE_SAMPLE_LAST, 64 and 192 on the device
\* (i2s_audio.h:150), and runs for 256 iterations (led_utilities.h:607)
NOISE_SAMPLE_FIRST == 1
NOISE_SAMPLE_LAST == 2
NOISE_CAL_ITERATIONS == 3
\* LED frames counted by the rendering task
MaxLedFrames == 2
\* follower updates explored
MaxFollowerUpdates == 3

----------------------------------------------------------------------------
(* Arithmetic helpers *)

Abs(x) == IF x < 0 THEN -x ELSE x

Min(a, b) == IF a < b THEN a ELSE b

Max(a, b) == IF a > b THEN a ELSE b

\* C integer division and float-to-int conversion truncate toward zero
TruncDiv(a, b) == IF a >= 0 THEN a \div b ELSE -((-a) \div b)

Clamp(x, lo, hi) == IF x < lo THEN lo ELSE IF x > hi THEN hi ELSE x

RECURSIVE ISqrtBits(_, _, _)
ISqrtBits(x, r, bit) ==
  IF bit = 0 THEN r
  ELSE LET c == r + bit
       IN  ISqrtBits(x, IF c <= x \div c THEN c ELSE r, bit \div 2)

\* floor(sqrt(x)) for 0 <= x < 2^31
ISqrt(x) == ISqrtBits(x, 0, 32768)

\* floor(a * 65536 / d) for 0 <= a, 0 < d <= 65536, without leaving 32 bits
MulDiv65536(a, d) ==
  LET q  == a \div d
      r  == a % d
      a1 == r * 256
      q1 == a1 \div d
      r1 == a1 % d
  IN  q * 65536 + q1 * 256 + (r1 * 256) \div d

\* a - b on uint32 timestamps. A wrapped difference is at least 2^32 - 4294968.
U32Sub(a, b) == IF a >= b THEN a - b ELSE 2147483647

RECURSIVE SumSeq(_)
SumSeq(s) == IF s = << >> THEN 0 ELSE Head(s) + SumSeq(Tail(s))

RECURSIVE MaxSeq(_)
MaxSeq(s) == IF s = << >> THEN 0 ELSE Max(Head(s), MaxSeq(Tail(s)))


----------------------------------------------------------------------------
(* Program constants *)

\* micros() is a 32-bit microsecond counter; t_now = micros() / 1000 runs
\* over 0 .. 4294967 and then starts again at 0 (main.cpp:294-295)
T_NOW_PERIOD == 4294968

MIN_STATE_DURATION_MS == 1500

EXTENDED_SILENCE_MS == 10000

\* SQ15x16(AGC_FLOOR_RECOVERY_RATE), 50.0
AGC_FLOOR_RECOVERY_RATE_Q == 3276800

\* AGC_FLOOR_MIN_CLAMP_RAW 10.0 and AGC_FLOOR_MAX_CLAMP_RAW 30000.0 as SQ15x16
AGC_FLOOR_MIN_CLAMP_RAW_Q == 655360

AGC_FLOOR_MAX_CLAMP_RAW_Q == 1966080000

\* AGC_FLOOR_MIN_CLAMP_SCALED 0.5 and AGC_FLOOR_MAX_CLAMP_SCALED 100.0, in 1/1000
AGC_FLOOR_MIN_CLAMP_SCALED == 500

AGC_FLOOR_MAX_CLAMP_SCALED == 100000

\* the deadband of the floor-tracker reset, 50.0, in 1/1000
AGC_DEADBAND == 50000

\* SQ15x16(65535.0) does not fit the 32-bit internal value: 65535 * 65536 is
\* out of range of int32_t, and the conversion from double is undefined.
\* The outcomes a build produces: the saturated value or the low 32 bits.
RESET_SATURATED == 2147483647

RESET_WRAPPED == -65536

\* silence gate (calculate_vu)
SILENCE_COUNTER_MAX == 20

SILENCE_DEBOUNCE == 10

\* SILENCE_THRESHOLD 0.01f in 1/100
SILENCE_THRESHOLD == 1

\* AGC (calculate_vu): gains in 1/1000, rolling RMS in 1/1000000
AGC_GAIN_MIN == 500

AGC_GAIN_MAX == 8000

AGC_SLEW == 50

AGC_GAIN_UNITY == 1000

ROLLING_RMS_INIT == 50000

\* TARGET_RMS 0.20f over a rolling RMS in 1/1000000 gives a gain in 1/1000
TARGET_RMS_SCALED == 200000000

\* 0.99f, the cap of CONFIG.VU_LEVEL_FLOOR, in 1/6553600
VU_FLOOR_CAP == 6488064

----------------------------------------------------------------------------
(* State *)

VARIABLES
  \* main_loop_core0
  pc,                          \* the call the main loop makes next
  cycles,                      \* engine cycles completed
  t_now,                       \* timestamp of the current cycle, ms
  \* i2s_read and the raw buffer
  samples_raw,                 \* AudioRawState::samples_raw_[0 .. SAMPLES_PER_CHUNK)
  bytes_read,                  \* bytes delivered by the cycle's i2s_read
  i2s_underruns,               \* perf_metrics.i2s_underruns
  \* conditioner
  waveform,                    \* short waveform[]
  waveform_fixed_point,        \* SQ15x16 waveform_fixed_point[]
  waveform_history,            \* AudioRawState::waveform_history_[4][]
  waveform_history_index,
  sample_window,               \* short sample_window[SAMPLE_HISTORY_LENGTH]
  max_waveform_val_raw,        \* float, always an integer
  max_waveform_val_raw_smooth, \* float, 1/1000
  max_waveform_val,            \* float, always an integer
  max_waveform_val_follower,   \* float, 1/1000
  waveform_peak_scaled,        \* float, 1/1000
  raw_rms_global,              \* float, 1/100
  \* loudness zone
  sweet_spot_state,            \* -1 silent, 0 normal, 1 loud
  sweet_spot_state_last,
  last_state_change_time,
  min_silent_level_tracker,    \* SQ15x16
  agc_floor_reset,             \* SQ15x16(AGC_FLOOR_INITIAL_RESET) as the build converts it
  silence_temp,
  silence_switched,
  silence,
  silent_scale,                \* float, 1/1000
  silent_scale_last,           \* float, 1/1000
  \* calibration
  noise_complete,
  noise_iterations,
  dc_offset_sum,
  CONFIG,                      \* the fields the engine reads and writes
  \* AGC, silence gate, VU
  AGC_ENABLED,
  AGC_GAIN,                    \* float, 1/1000
  SILENCE_GATE_ACTIVE,
  silence_counter,
  rolling_rms,                 \* float, 1/1000000
  audio_vu_level,              \* SQ15x16
  audio_vu_level_last,         \* SQ15x16
  audio_vu_level_average,      \* SQ15x16
  \* calibration values as they were when the running calibration started
  cal_pre,
  \* led_thread
  led_pc,                      \* the read apply_brightness makes next
  led_frames,                  \* frames shown
  led_obs                      \* what the frame in progress has read

loopVars == <<pc, cycles, t_now>>

readVars == <<samples_raw, bytes_read, i2s_underruns>>

condVars == <<waveform, waveform_fixed_point, waveform_history,
              waveform_history_index, sample_window, max_waveform_val_raw,
              max_waveform_val_raw_smooth, max_waveform_val,
              max_waveform_val_follower, waveform_peak_scaled, raw_rms_global>>

zoneVars == <<sweet_spot_state, sweet_spot_state_last, last_state_change_time,
              min_silent_level_tracker, agc_floor_reset, silence_temp,
              silence_switched, silence, silent_scale, silent_scale_last>>

calVars == <<noise_complete, noise_iterations, dc_offset_sum, CONFIG, cal_pre>>

vuVars == <<AGC_ENABLED, AGC_GAIN, SILENCE_GATE_ACTIVE, silence_counter,
            rolling_rms, audio_vu_level, audio_vu_level_last,
            audio_vu_level_average>>

ledVars == <<led_pc, led_frames, led_obs>>

\* AudioRawState guard words (audio_raw_state.h:50-53), AudioGuard statics
\* (audio_guard.h:233-234) and AudioProcessedState's corruption counter
VARIABLES guard_prefix, guard_suffix, guard_initialized, last_guard_check,
          corruption_count

guardVars == <<guard_prefix, guard_suffix, guard_initialized,
               last_guard_check, corruption_count>>

\* the secondary strip's mood (globals.h:464) and the copy of CONFIG.MOOD
\* led_thread keeps while it renders the secondary strip (main.cpp:509)
VARIABLES SECONDARY_MOOD, saved_mood

secondaryVars == <<SECONDARY_MOOD, saved_mood>>

\* check_knobs: its position, the number of its completed calls, its local
\* smoothing_top_half and the two globals it computes (globals.h:191-192)
VARIABLES knob_pc, knob_passes, smoothing_top_half, smoothing_follower,
          smoothing_exp_average

knobVars == <<knob_pc, knob_passes, smoothing_top_half, smoothing_follower,
              smoothing_exp_average>>

\* state outside the audio path proper
\* the Goertzel bin table (globals.h:129-144), the bin index of the loop that
\* is running over it, and the locals and last result of GDFT_optimized
VARIABLES goertzel_pc, goertzel_i, frequencies, gdft_n, gdft_inv,
          magnitude_normalized

goertzelVars == <<goertzel_pc, goertzel_i, frequencies, gdft_n, gdft_inv,
                  magnitude_normalized>>

\* for each caller of i2s_read, the call it has in progress: whether the
\* caller is blocked, the ticks it agreed to wait, the ticks waited and the
\* bytes that have arrived
VARIABLES source_reads

sourceVars == <<source_reads>>

\* the ambient noise profile (globals.h:231), the file /noise_cal.bin as a
\* sequence of bytes, and which of save and load comes next
VARIABLES noise_samples, noise_file, noise_pc

noiseVars == <<noise_samples, noise_file, noise_pc>>

\* the per-bin followers of GDFT_optimized (globals.h:350) and the number of
\* follower updates taken
VARIABLES mag_followers, follower_updates

\* CONFIG.SAMPLES_PER_CHUNK (globals.h:56) at the scale of the device, and
\* the lowest and highest index the last acquire_sample_chunk used in the
\* chunk buffers and in sample_window[]
VARIABLES chunk_config, chunk_touched

\* the value check_encoders last wrote to CONFIG.MOOD (encoders.h:260-262),
\* -1 before the first write
VARIABLES encoder_mood

\* the delayed save of the settings: settings_updated and next_save_time
\* (globals.h:314-315), the millisecond clock, the position of the encoder
\* task in check_encoders with the t_now it was called with, the time of the
\* last write of a setting, and the ms between that write and the last call
\* of save_config (-1 before the first call)
VARIABLES settings_updated, next_save_time, settings_clock, encoder_pc,
          encoder_t_now, last_setting_change, save_gap

\* the encoder module: g_rotate8_available (main.cpp:102), whether
\* init_encoders has run, encoder_error_state and encoder_error_count of
\* check_encoders, whether the device answers on the bus, whether
\* attempt_rotate8_init was called since the module was last marked
\* unavailable, and the calls of check_encoders since the last heartbeat or
\* warning line
VARIABLES rotate8

settingsVars == <<settings_updated, next_save_time, settings_clock,
                  encoder_pc, encoder_t_now, last_setting_change, save_gap,
                  rotate8>>

\* the files of one SafeFile path: the file itself, its .bak and its .tmp,
\* each absent (0), the complete data of the n-th write (n) or a part of it
\* (-n); the number of write calls and the last one that returned OK
VARIABLES safe_fs

\* the arguments and the result of the last getHistoryFrame call
VARIABLES history_frame

\* one bin of GDFT_optimized: the window and coeff_q15, the loop counter n,
\* the state q1, q2 of the loops, and the state r1, r2 that single steps of
\* the recurrence reach on the first n samples
VARIABLES goertzel_q

peripheralVars == <<mag_followers, follower_updates, chunk_config,
                    chunk_touched, encoder_mood, settingsVars, safe_fs,
                    history_frame, goertzel_q>>

auxVars == <<guardVars, secondaryVars, knobVars, goertzelVars, sourceVars,
             noiseVars, peripheralVars>>

vars == <<loopVars, readVars, condVars, zoneVars, calVars, vuVars, ledVars,
          auxVars>>

ChunkIdx == 1 .. SAMPLES_PER_CHUNK

Zeros(n) == [i \in 1 .. n |-> 0]


----------------------------------------------------------------------------
(* Sample conditioning: acquire_sample_chunk, i2s_audio.h:61-125 *)

\* i2s_read stores the delivered samples at the start of the buffer; what it
\* does not deliver keeps the buffer's earlier contents
I2sRead(buf, data) ==
  [i \in ChunkIdx |-> IF i <= Len(data) THEN data[i] ELSE buf[i]]

\* raw >> 14, minus the DC offset, times the sensitivity (a float, 1/1000)
PreGainSample(raw, cfg) ==
  TruncDiv(((raw \div 16384) - cfg.DC_OFFSET) * cfg.SENSITIVITY, 1000)

\* if (AGC_ENABLED) sample = sample * AGC_GAIN
ApplyAgcGain(sample, enabled, gain) ==
  IF enabled THEN TruncDiv(sample * gain, 1000) ELSE sample

ClipSample(sample) ==
  IF sample > 32767 THEN 32767 ELSE IF sample < -32767 THEN -32767 ELSE sample

\* floor and remainder of the mean of the squares of the pre-gain samples
MeanSquare(pre) ==
  LET n == Len(pre)
      q == SumSeq([i \in 1 .. n |-> (pre[i] * pre[i]) \div n])
      r == SumSeq([i \in 1 .. n |-> (pre[i] * pre[i]) % n])
  IN  <<q + r \div n, r % n, n>>

\* sqrtf(raw_sum_sq / SAMPLES_PER_CHUNK) in 1/100; whole units from 447 up,
\* where the hundredths leave 32 bits
RawRms(pre) ==
  LET ms == MeanSquare(pre)
  IN  IF ms[1] < 200000
      THEN ISqrt(10000 * ms[1] + (10000 * ms[2]) \div ms[3])
      ELSE 100 * ISqrt(ms[1])

\* max_waveform_val_raw * 0.2 + max_waveform_val_raw_smooth * 0.8
SmoothPeak(peak, smooth) == (peak * 2000 + smooth * 8) \div 10

----------------------------------------------------------------------------
(* Loudness zone: acquire_sample_chunk, i2s_audio.h:157-302 *)

\* threshold_silence in 1/1000: the tracker clamped to [10, 30000], times
\* 0.01, clamped to [0.5, 100]
ThresholdSilence(tracker) ==
  LET q == Clamp(tracker, AGC_FLOOR_MIN_CLAMP_RAW_Q, AGC_FLOOR_MAX_CLAMP_RAW_Q)
      scaled == (q \div 65536) * 10 + ((q % 65536) * 10) \div 65536
  IN  Clamp(scaled, AGC_FLOOR_MIN_CLAMP_SCALED, AGC_FLOOR_MAX_CLAMP_SCALED)

\* a zone decision that calls the peak loud from the minimum level up
PotentialNextState_LoudAtMin(smooth, threshold_silence, cfg) ==
  IF smooth <= threshold_silence THEN -1
  ELSE IF smooth >= cfg.SWEET_SPOT_MIN_LEVEL * 1000 THEN 1
  ELSE 0

\* potential_next_state, decided on the smoothed peak
PotentialNextState(smooth, threshold_silence, cfg) ==
  IF smooth <= threshold_silence THEN -1
  ELSE IF smooth >= cfg.SWEET_SPOT_MAX_LEVEL * 1000 THEN 1
  ELSE 0

\* a dwell check that lets a transition through as soon as time has moved
DwellElapsed_NoDwell(t, last) == U32Sub(t, last) > 0

\* (t_now - last_state_change_time) > MIN_STATE_DURATION_MS, on uint32
DwellElapsed(t, last) == U32Sub(t, last) > MIN_STATE_DURATION_MS

\* a transition is committed when the potential state differs and the
\* current state has been held for the minimum dwell time
CommitTransition(potential, state, t, last) ==
  potential # state /\ DwellElapsed(t, last)

\* agc_delta > 50.0 on confirmed entry into Silent, on the raw peak
DeadbandMet(threshold_silence, peak) ==
  threshold_silence - peak * 1000 > AGC_DEADBAND

\* SQ15x16 addition of the recovery rate; the 32-bit internal value wraps
TrackerRecover(tracker) ==
  LET hi == tracker \div 65536
      lo == tracker % 65536
      h2 == ((hi + AGC_FLOOR_RECOVERY_RATE_Q \div 65536 + 32768) % 65536) - 32768
  IN  h2 * 65536 + lo

\* the tracker while the zone is Silent: ratchet down to the raw peak, or
\* recover by the recovery rate, capped at the reset value
TrackSilentLevel(tracker, peak, reset) ==
  IF peak * 65536 < tracker THEN peak * 65536
  ELSE Min(TrackerRecover(tracker), reset)

\* the tracker after the cycle's zone logic: the reset on a committed entry
\* into Silent with the deadband met, then the tracking while Silent
NextTracker(tracker, entered, state, threshold, peak, reset) ==
  LET start == IF entered /\ DeadbandMet(threshold, peak) THEN reset
               ELSE tracker
  IN  IF state = -1 THEN TrackSilentLevel(start, peak, reset) ELSE start

\* max_waveform_val_follower: attack 0.4, decay 0.02, floored at the minimum level
NextFollower(val, follower, cfg) ==
  IF val * 1000 > follower
  THEN follower + ((val * 1000 - follower) * 4) \div 10
  ELSE IF val * 1000 < follower
  THEN Max(follower - ((follower - val * 1000) * 2) \div 100,
           cfg.SWEET_SPOT_MIN_LEVEL * 1000)
  ELSE follower

\* |a| / d to three decimals, truncated
RECURSIVE FracDigits(_, _, _)
FracDigits(r, d, k) ==
  IF k = 0 THEN 0
  ELSE LET m == IF k = 3 THEN 100 ELSE IF k = 2 THEN 10 ELSE 1
       IN  ((r * 10) \div d) * m + FracDigits((r * 10) % d, d, k - 1)

DivMilli(a, d) == (a \div d) * 1000 + FracDigits(a % d, d, 3)

\* waveform_peak_scaled: half of the way to max_waveform_val / follower
NextPeakScaled(val, follower, scaled) ==
  LET q == DivMilli(Abs(val) * 1000, Max(follower, 1))
      target == IF val < 0 THEN -q ELSE q
  IN  IF target > scaled THEN scaled + (target - scaled) \div 2
      ELSE IF target < scaled THEN scaled - (scaled - target) \div 2
      ELSE scaled

----------------------------------------------------------------------------
(* VU level, silence gate and AGC: calculate_vu, i2s_audio.h:328-412 *)

\* silence_counter: counts cycles below the threshold up to 20, restarts at
\* 0 on a cycle at or above it
NextSilenceCounter(counter, rms) ==
  IF rms < SILENCE_THRESHOLD
  THEN (IF counter < SILENCE_COUNTER_MAX THEN counter + 1 ELSE counter)
  ELSE 0

\* SILENCE_GATE_ACTIVE
GateActive(enabled, counter) == enabled /\ counter >= SILENCE_DEBOUNCE

\* SQ15x16(waveform[i]) * RECIP_32768, RECIP_32768 being 2 / 65536
ToFixedPoint(sample) == 2 * sample

\* float(waveform_fixed_point[i] * waveform_fixed_point[i]), in 1/65536
SquareFixed(x) ==
  LET k == Abs(x) \div 2
      b == Abs(x) % 2
  IN  (k * k + k * b) \div 16384

\* SQ15x16(sqrt(sum / SAMPLES_PER_CHUNK)): the largest r with
\* r * r <= 65536 * sum / n, found through floor(65536 * sum / n) / 4
RmsFixed(wfp) ==
  LET n == Len(wfp)
      sum == SumSeq([i \in 1 .. n |-> SquareFixed(wfp[i])])
      q == sum \div n
      rem == sum % n
      y == 16384 * q + (16384 * rem) \div n
      xm4 == ((65536 * rem) \div n) % 4
      r2 == ISqrt(y)
      lim == IF xm4 >= 1 THEN y ELSE y - 1
  IN  IF r2 * r2 + r2 <= lim THEN 2 * r2 + 1 ELSE 2 * r2

\* waveform_fixed_point as acquire_sample_chunk leaves it for a block of raw
\* samples when it runs with the AGC on at the given gain
ConditionedFixedPoint(raw, cfg, gain) ==
  [i \in 1 .. Len(raw) |->
     ToFixedPoint(ClipSample(ApplyAgcGain(PreGainSample(raw[i], cfg), TRUE,
                                          gain)))]

\* rolling_rms * (1 - ROLL_ALPHA) + rms_f * ROLL_ALPHA, in 1/1000000
NextRollingRms(rolling, rms) ==
  (rolling * 99 + (rms * 15625) \div 1024) \div 100

\* a desired gain that is not clamped
DesiredGain_Unclamped(rolling) ==
  IF rolling = 0 THEN 2 * AGC_GAIN_MAX ELSE TARGET_RMS_SCALED \div rolling

\* TARGET_RMS / rolling_rms clamped to [0.5, 8.0]
DesiredGain(rolling) ==
  IF rolling = 0 THEN AGC_GAIN_MAX
  ELSE Clamp(TARGET_RMS_SCALED \div rolling, AGC_GAIN_MIN, AGC_GAIN_MAX)

\* a gain that jumps to the desired gain at once
SlewGain_Jump(gain, desired) == desired

\* the slew-limited step of AGC_GAIN toward the desired gain
SlewGain(gain, desired) ==
  IF desired > gain THEN gain + Min(desired - gain, AGC_SLEW)
  ELSE gain - Min(gain - desired, AGC_SLEW)

\* an AGC computation that runs whether or not the AGC is enabled
NextAgcGain_NoBypass(enabled, gain, rolling) ==
  SlewGain(gain, DesiredGain(rolling))

\* AGC_GAIN after calculate_vu
NextAgcGain(enabled, gain, rolling) ==
  IF ~enabled THEN AGC_GAIN_UNITY ELSE SlewGain(gain, DesiredGain(rolling))

\* float(audio_vu_level * 1.5) in the unit of CONFIG.VU_LEVEL_FLOOR
VuTimes1_5(vu) == ((vu * 3) \div 2) * 100

\* a floor that calibration raises to the VU level itself
RaiseVuFloor_NoMargin(vu, floor) ==
  IF vu * 100 > floor THEN vu * 100 ELSE floor

\* calibrating: the floor is raised to 1.5 times the VU level
RaiseVuFloor(vu, floor) == IF VuTimes1_5(vu) > floor THEN VuTimes1_5(vu) ELSE floor

\* a rescale by 1 - floor of a level the floor was not subtracted from
ApplyVuFloor_NoSubtraction(vu, floor) ==
  MulDiv65536(vu, (6553600 - Min(VU_FLOOR_CAP, floor)) \div 100)

\* a floor subtraction that is not clamped at zero
ApplyVuFloor_NoClamp(vu, floor) ==
  LET sub == vu - floor \div 100
      d == (6553600 - Min(VU_FLOOR_CAP, floor)) \div 100
  IN  IF sub >= 0 THEN MulDiv65536(sub, d) ELSE -MulDiv65536(-sub, d)

\* calibrated: subtract the floor, clamp at 0, divide by 1 - floor
ApplyVuFloor(vu, floor) ==
  LET sub == Max(vu - floor \div 100, 0)
      capped == Min(VU_FLOOR_CAP, floor)
  IN  MulDiv65536(sub, (6553600 - capped) \div 100)

----------------------------------------------------------------------------
(* precompute_goertzel_constants(), system.h:216-283, and the bin loop of
   GDFT_optimized(), GDFT_optimized.h:27-102.  Frequencies are in 1/10000 Hz,
   inv_block_size_half and block_size_recip in 1/1000000, window_mult in
   1/1000.  coeff_q15 and the Goertzel recursion itself are left out: the
   loop is represented by the number of samples it runs over and the
   magnitude it ends with. *)

NUM_FREQS == 96

\* the history the bin windows are cut from (constants.h:11); the audio path
\* above runs on the shortened window of SAMPLE_HISTORY_LENGTH samples
GOERTZEL_HISTORY_LENGTH == 4096

\* bins above this index have their loop length limited
OPTIMIZED_FROM_BIN == 48

OPTIMIZED_BLOCK_SIZE == 256

BOOT_SAMPLE_RATE == 32000

\* the result of a floating-point division by zero
FLOAT_INF == 2147483647

\* notes[], constants.h:78-87
notes ==
  <<
     550000, 582705, 617354, 654064, 692957, 734162,
     777818, 824069, 873071, 924986, 979989, 1038262,
     1100000, 1165409, 1234708, 1308128, 1385913, 1468324,
     1555635, 1648138, 1746141, 1849972, 1959977, 2076523,
     2200000, 2330819, 2469417, 2616256, 2771826, 2936648,
     3111270, 3296276, 3492282, 3699944, 3919954, 4153047,
     4400000, 4661638, 4938833, 5232511, 5543653, 5873295,
     6222540, 6592551, 6984565, 7399888, 7839909, 8306094,
     8800000, 9323275, 9877666, 10465020, 11087310, 11746590,
     12445080, 13185100, 13969130, 14799780, 15679820, 16612190,
     17600000, 18646550, 19755330, 20930050, 22174610, 23493180,
     24890160, 26370200, 27938250, 29599560, 31359640, 33224370,
     35200000, 37293100, 39510650, 41860090, 44349220, 46986360,
     49780320, 52740410, 55876520, 59199110, 62719270, 66448750,
     70400000, 74586200, 79021300, 83720180, 88698440, 93972720,
     99560640, 105480800, 111753000, 118398200, 125438500, 132897500
  >>

\* notes[n + CONFIG.NOTE_OFFSET] with the default offset 0
Note(n) == notes[n + 1]

\* the rates validateAudioState accepts (audio_guard.h:147-150)
IsValidSampleRate(rate) == rate \in {8000, 16000, 22050, 32000, 44100, 48000}

\* the larger distance to a neighbouring note; the first and the last bin
\* are their own neighbour on one side
MaxDistanceHz(i) ==
  LET neighbor_left == IF i = 0 THEN Note(i) ELSE Note(i - 1)
      neighbor_right == IF i = NUM_FREQS - 1 THEN Note(i) ELSE Note(i + 1)
  IN  Max(Abs(neighbor_left - Note(i)), Abs(neighbor_right - Note(i)))

\* block_size without the cap at the history length
BlockSize_Uncapped(rate, i) == (rate * 10000) \div (2 * MaxDistanceHz(i))

\* CONFIG.SAMPLE_RATE / (max_distance_hz * 2.0), capped at the history length
BlockSize(rate, i) ==
  Min((rate * 10000) \div (2 * MaxDistanceHz(i)), GOERTZEL_HISTORY_LENGTH)

\* inv_block_size_half = 2.0 / block_size, or 0.0 for an empty block
InvBlockSizeHalf(block_size) ==
  IF block_size > 0 THEN 2000000 \div block_size ELSE 0

\* a float divided by the block size, with no test of the divisor
FloatDiv(numerator, block_size) ==
  IF block_size = 0 THEN FLOAT_INF ELSE numerator \div block_size

BlockSizeOptimized(i, block_size) ==
  IF i > OPTIMIZED_FROM_BIN /\ block_size > OPTIMIZED_BLOCK_SIZE
    THEN OPTIMIZED_BLOCK_SIZE
    ELSE block_size

\* one entry of frequencies[] as precompute_goertzel_constants fills it
FreqEntry(rate, i) ==
  LET block_size == BlockSize(rate, i)
  IN  [target_freq          |-> Note(i),
       block_size           |-> block_size,
       inv_block_size_half  |-> InvBlockSizeHalf(block_size),
       block_size_recip     |-> FloatDiv(1000000, block_size),
       block_size_optimized |-> BlockSizeOptimized(i, block_size),
       window_mult          |-> FloatDiv(4096000, block_size),
       zone                 |-> (i * 2) \div NUM_FREQS]

\* an entry of the zero-initialised global
ZeroFreq ==
  [target_freq |-> 0, block_size |-> 0, inv_block_size_half |-> 0,
   block_size_recip |-> 0, block_size_optimized |-> 0, window_mult |-> 0,
   zone |-> 0]

\* the number of samples the two loops of a bin run over: four at a time up
\* to block_size & ~3, then one at a time up to block_size
SamplesIterated(block_size) ==
  LET unrolled == block_size - (block_size % 4)
  IN  unrolled + (block_size - unrolled)

----------------------------------------------------------------------------
(* The calls of i2s_read: acquire_sample_chunk (i2s_audio.h:64) and the
   readSamples of the two AudioInputBase implementations
   (audio_input_factory.h:95-97, 187-189).  i2s_read blocks its caller until
   the requested bytes have arrived or the ticks to wait have passed, and
   then returns the bytes that arrived; portMAX_DELAY waits without limit. *)

Sources == {"acquire_sample_chunk", "IM69D130Input", "SPH0645Input"}

\* pdMS_TO_TICKS(10)
I2S_READ_TIMEOUT_TICKS == 10

\* stands for 0xffffffff, the wait without limit
portMAX_DELAY == -1

\* the last argument of the caller's i2s_read
TicksToWait(r) ==
  IF r = "acquire_sample_chunk" THEN I2S_READ_TIMEOUT_TICKS ELSE portMAX_DELAY

\* CONFIG.SAMPLES_PER_CHUNK * sizeof(int32_t)
RequestedBytes == SAMPLES_PER_CHUNK * 4

NoRead == [blocked |-> FALSE, ticks_to_wait |-> 0, waited |-> 0, bytes_read |-> 0]

----------------------------------------------------------------------------
(* The noise profile file: save_ambient_noise_calibration and
   load_ambient_noise_calibration, bridge_fs.h:175-254.  A float is the
   record of its sign, its 24-bit significand m24 (0 for zero) and the
   exponent e with value * 65536 = m24 * 2^e; the file holds its four
   IEEE-754 bytes, least significant first (union bytes_32,
   globals.h:378-382). *)

RECURSIVE Pow2(_)
Pow2(k) == IF k = 0 THEN 1 ELSE 2 * Pow2(k - 1)

\* the number of bits of a, 0 <= a < 2^31
RECURSIVE BitLength(_)
BitLength(a) == IF a = 0 THEN 0 ELSE 1 + BitLength(a \div 2)

\* float(noise_samples[i]): the 32-bit internal value converted to float,
\* rounded to the nearest 24-bit significand, ties to even
FloatOfFixed(q) ==
  IF q = 0 THEN [sign |-> 0, m24 |-> 0, e |-> 0]
  ELSE IF q = -2147483647 - 1 THEN [sign |-> 1, m24 |-> 8388608, e |-> 8]
  ELSE LET a == Abs(q)
           n == BitLength(a)
           sign == IF q < 0 THEN 1 ELSE 0
       IN  IF n <= 24
           THEN [sign |-> sign, m24 |-> a * Pow2(24 - n), e |-> n - 24]
           ELSE LET s == n - 24
                    hi == a \div Pow2(s)
                    lo == a % Pow2(s)
                    half == Pow2(s - 1)
                    r == IF lo > half \/ (lo = half /\ hi % 2 = 1)
                         THEN hi + 1 ELSE hi
                IN  IF r = 16777216
                    THEN [sign |-> sign, m24 |-> 8388608, e |-> s + 1]
                    ELSE [sign |-> sign, m24 |-> r, e |-> s]

\* temp.bytes[0 .. 3] of the float: sign, biased exponent e + 7 + 127 and
\* the 23 fraction bits, least significant byte first
FloatBytes(f) ==
  IF f.m24 = 0 THEN <<0, 0, 0, 0>>
  ELSE LET frac == f.m24 - 8388608
           biased == f.e + 134
       IN  <<frac % 256,
             (frac \div 256) % 256,
             (biased % 2) * 128 + frac \div 65536,
             f.sign * 128 + biased \div 2>>

\* temp.long_val_float of four bytes read back (zero and normal numbers)
BytesFloat(b) ==
  LET biased == (b[4] % 128) * 2 + b[3] \div 128
      frac == (b[3] % 128) * 65536 + b[2] * 256 + b[1]
  IN  IF biased = 0 THEN [sign |-> b[4] \div 128, m24 |-> 0, e |-> 0]
      ELSE [sign |-> b[4] \div 128, m24 |-> 8388608 + frac, e |-> biased - 134]

\* SQ15x16(temp.long_val_float): the float times 65536, truncated toward
\* zero; at 32768.0 and above the conversion is out of range of int32_t and
\* gives the outcome of the build
FixedOfFloat(f, out_of_range) ==
  IF f.m24 = 0 THEN 0
  ELSE IF f.e >= 8
  THEN (IF f.sign = 1 /\ f.m24 = 8388608 /\ f.e = 8 THEN -2147483647 - 1
        ELSE out_of_range)
  ELSE LET a == IF f.e >= 0 THEN f.m24 * Pow2(f.e) ELSE f.m24 \div Pow2(-f.e)
       IN  IF f.sign = 1 THEN -a ELSE a

\* noise_samples[] with the given values in its first bins and 0.0 elsewhere
Profile(levels) ==
  [i \in 0 .. NUM_FREQS - 1 |-> IF i < Len(levels) THEN levels[i + 1] ELSE 0]

----------------------------------------------------------------------------
(* Initial state: the initialisers of globals.h, audio_raw_state.h and the
   function statics of i2s_audio.h *)

DefaultConfig ==
  [SENSITIVITY          |-> 400,     \* 0.4, in 1/1000
   SWEET_SPOT_MIN_LEVEL |-> 750,
   SWEET_SPOT_MAX_LEVEL |-> 30000,
   DC_OFFSET            |-> -14800,
   STANDBY_DIMMING      |-> TRUE,
   MOOD                 |-> 50,      \* 0.05, in 1/1000
   SAMPLE_RATE          |-> 16000,
   VU_LEVEL_FLOOR       |-> 0]       \* 0.00, in 1/6553600

\* the values a calibration run adjusts
CalibratedValues(cfg) ==
  [SWEET_SPOT_MIN_LEVEL |-> cfg.SWEET_SPOT_MIN_LEVEL,
   VU_LEVEL_FLOOR       |-> cfg.VU_LEVEL_FLOOR,
   DC_OFFSET            |-> cfg.DC_OFFSET]

\* the state after construction and init_system, with the sample rate that the
\* configuration holds when init_system runs
InitWith(sample_rate) ==
  /\ pc = "acquire"
  /\ cycles = 0
  /\ t_now = 0
  /\ samples_raw = Zeros(SAMPLES_PER_CHUNK)
  /\ bytes_read = 0
  /\ i2s_underruns = 0
  /\ waveform = Zeros(SAMPLES_PER_CHUNK)
  /\ waveform_fixed_point = Zeros(SAMPLES_PER_CHUNK)
  /\ waveform_history = [f \in 0 .. 3 |-> Zeros(SAMPLES_PER_CHUNK)]
  /\ waveform_history_index = 0
  /\ sample_window = Zeros(SAMPLE_HISTORY_LENGTH)
  /\ max_waveform_val_raw = 0
  /\ max_waveform_val_raw_smooth = 0
  /\ max_waveform_val = 0
  /\ max_waveform_val_follower = 1000000
  /\ waveform_peak_scaled = 0
  /\ raw_rms_global = 0
  /\ sweet_spot_state = 0
  /\ sweet_spot_state_last = 0
  /\ last_state_change_time = 0
  /\ min_silent_level_tracker = 100 * 65536
  /\ agc_floor_reset \in {RESET_SATURATED, RESET_WRAPPED}
  /\ silence_temp = FALSE
  /\ silence_switched = 0
  /\ silence = FALSE
  /\ silent_scale = 1000
  /\ silent_scale_last = 1000
  /\ noise_complete = TRUE
  /\ noise_iterations = 0
  /\ dc_offset_sum = 0
  /\ CONFIG = [DefaultConfig EXCEPT !.SAMPLE_RATE = sample_rate]
  /\ cal_pre = CalibratedValues(DefaultConfig)
  /\ AGC_ENABLED = TRUE
  /\ AGC_GAIN = AGC_GAIN_UNITY
  /\ SILENCE_GATE_ACTIVE = FALSE
  /\ silence_counter = 0
  /\ rolling_rms = ROLLING_RMS_INIT
  /\ audio_vu_level = 0
  /\ audio_vu_level_last = 0
  /\ audio_vu_level_average = 0
  /\ led_pc = "secondary"
  /\ led_frames = 0
  /\ led_obs = [vu |-> 0, vu_cycle |-> 0, scale |-> 1000, scale_cycle |-> 0]
  /\ guard_prefix = "GUARD_MAGIC"
  /\ guard_suffix = "GUARD_MAGIC"
  /\ guard_initialized = FALSE
  /\ last_guard_check = 0
  /\ corruption_count = 0
  /\ SECONDARY_MOOD = 50
  /\ saved_mood = 0
  /\ knob_pc = "top"
  /\ knob_passes = 0
  /\ smoothing_top_half = 0
  /\ smoothing_follower = 0
  /\ smoothing_exp_average = 0
  /\ goertzel_pc = "precompute"
  /\ goertzel_i = 0
  /\ frequencies = [i \in 0 .. NUM_FREQS - 1 |-> ZeroFreq]
  /\ gdft_n = 0
  /\ gdft_inv = 0
  /\ magnitude_normalized = 0
  /\ source_reads = [r \in Sources |-> NoRead]
  /\ noise_file = << >>
  /\ noise_pc = "save"
  /\ mag_followers = [i \in 0 .. NUM_FREQS - 1 |-> 0]
  /\ follower_updates = 0
  /\ chunk_config = 128
  /\ encoder_mood = -1
  /\ settings_updated = FALSE
  /\ next_save_time = 0
  /\ settings_clock = 0
  /\ encoder_pc = "idle"
  /\ encoder_t_now = 0
  /\ last_setting_change = 0
  /\ save_gap = -1
  /\ safe_fs = [primary |-> 0, backup |-> 0, temp |-> 0, writes |-> 0,
                last_ok |-> 0, status |-> "NONE"]
  /\ history_frame = [offset |-> 0, index |-> 0, idx |-> 0]
  /\ goertzel_q = [samples |-> << >>, coeff |-> 0, n |-> 0, q1 |-> 0,
                   q2 |-> 0, r1 |-> 0, r2 |-> 0]
  /\ rotate8 = [available |-> FALSE, started |-> FALSE,
                error_state |-> FALSE, error_count |-> 0, responds |-> TRUE,
                reattempted |-> FALSE, calls |-> 0]
  /\ chunk_touched = [chunk_hi |-> -1, window_lo |-> 0, window_hi |-> -1]

\* init_fs leaves CONFIG.SAMPLE_RATE at 32 kHz (bridge_fs.h:264-276)
Init == InitWith(BOOT_SAMPLE_RATE) /\ noise_samples = Profile(<<65536>>)

----------------------------------------------------------------------------
(* acquire_sample_chunk(t_now), i2s_audio.h:52-326, with the timestamp the
   main loop takes for the cycle, main.cpp:294-295 and 343 *)

\* sample_window after the shift by one chunk and the append of the waveform
ShiftAppend(window, wf) ==
  [i \in 1 .. Len(window) |->
     IF i <= Len(window) - Len(wf) THEN window[i + Len(wf)]
     ELSE wf[i - (Len(window) - Len(wf))]]

\* the branch taken while calibration is running (i2s_audio.h:138-154)
AcquireCalibrating(raw, peak) ==
  /\ dc_offset_sum' = dc_offset_sum + raw[1] \div 16384
  /\ silent_scale' = 1000
  /\ CONFIG' =
       IF /\ noise_iterations >= NOISE_SAMPLE_FIRST
          /\ noise_iterations <= NOISE_SAMPLE_LAST
          /\ peak * 11 > CONFIG.SWEET_SPOT_MIN_LEVEL * 10
       THEN [CONFIG EXCEPT !.SWEET_SPOT_MIN_LEVEL = (peak * 11) \div 10]
       ELSE CONFIG
  /\ max_waveform_val' = 0
  /\ UNCHANGED <<max_waveform_val_follower, waveform_peak_scaled,
                 sweet_spot_state, sweet_spot_state_last,
                 last_state_change_time, min_silent_level_tracker,
                 silence_temp, silence_switched, silence, silent_scale_last,
                 sample_window, waveform_fixed_point>>

\* the branch taken once calibration is complete (i2s_audio.h:155-325)
AcquireCalibrated(t, wf, peak, smooth) ==
  LET threshold_silence == ThresholdSilence(min_silent_level_tracker)
      val == peak - CONFIG.SWEET_SPOT_MIN_LEVEL
      follower == NextFollower(val, max_waveform_val_follower, CONFIG)
      potential == PotentialNextState(smooth, threshold_silence, CONFIG)
      commit == CommitTransition(potential, sweet_spot_state, t,
                                 last_state_change_time)
      state == IF commit THEN potential ELSE sweet_spot_state
      switched == IF commit /\ potential = -1 THEN t ELSE silence_switched
      loud_sound_detected == peak * 5 > CONFIG.SWEET_SPOT_MIN_LEVEL * 6
      sil == IF loud_sound_detected THEN FALSE
             ELSE IF state = -1
                  THEN silence \/ U32Sub(t, switched) >= EXTENDED_SILENCE_MS
                  ELSE FALSE
      scale == (IF sil THEN 0 ELSE 100) + (silent_scale_last * 9) \div 10
  IN  /\ max_waveform_val' = val
      /\ max_waveform_val_follower' = follower
      /\ waveform_peak_scaled' = NextPeakScaled(val, follower, waveform_peak_scaled)
      /\ sweet_spot_state' = state
      /\ last_state_change_time' = IF commit THEN t ELSE last_state_change_time
      /\ min_silent_level_tracker' =
           NextTracker(min_silent_level_tracker,
                       commit /\ state = -1 /\ sweet_spot_state # -1, state,
                       threshold_silence, peak, agc_floor_reset)
      /\ silence' = sil
      /\ silence_temp' = (~loud_sound_detected /\ state = -1)
      /\ silence_switched' = IF loud_sound_detected THEN t ELSE switched
      /\ silent_scale' = IF CONFIG.STANDBY_DIMMING THEN scale ELSE 1000
      /\ silent_scale_last' =
           IF CONFIG.STANDBY_DIMMING THEN scale ELSE silent_scale_last
      /\ sample_window' = ShiftAppend(sample_window, wf)
      /\ waveform_fixed_point' = [i \in ChunkIdx |-> ToFixedPoint(wf[i])]
      /\ sweet_spot_state_last' = state
      /\ UNCHANGED <<dc_offset_sum, CONFIG>>

AcquireSampleChunk(dt, data) ==
  LET t == (t_now + dt) % T_NOW_PERIOD
      raw == I2sRead(samples_raw, data)
      pre == [i \in ChunkIdx |-> PreGainSample(raw[i], CONFIG)]
      wf == [i \in ChunkIdx |->
               ClipSample(ApplyAgcGain(pre[i], AGC_ENABLED, AGC_GAIN))]
      peak == MaxSeq([i \in ChunkIdx |-> Abs(wf[i])])
      smooth == SmoothPeak(peak, max_waveform_val_raw_smooth)
      index == (waveform_history_index + 1) % 4
  IN  /\ pc = "acquire"
      /\ pc' = "vu"
      /\ t_now' = t
      /\ samples_raw' = raw
      /\ bytes_read' = 4 * Len(data)
      /\ waveform' = wf
      /\ waveform_history_index' = index
      /\ waveform_history' = [waveform_history EXCEPT ![index] = wf]
      /\ max_waveform_val_raw' = peak
      /\ max_waveform_val_raw_smooth' = smooth
      /\ raw_rms_global' = RawRms(pre)
      /\ IF noise_complete
         THEN AcquireCalibrated(t, wf, peak, smooth)
         ELSE AcquireCalibrating(raw, peak)
      /\ UNCHANGED <<cycles, i2s_underruns, agc_floor_reset, noise_complete,
                     noise_iterations, cal_pre, vuVars, ledVars, auxVars>>

----------------------------------------------------------------------------
(* calculate_vu(), i2s_audio.h:328-412 *)

CalculateVu ==
  LET counter == NextSilenceCounter(silence_counter, raw_rms_global)
      gate == GateActive(AGC_ENABLED, counter)
      rms == RmsFixed(waveform_fixed_point)
      vu == IF gate THEN 0 ELSE rms
      rolling == IF AGC_ENABLED THEN NextRollingRms(rolling_rms, rms)
                 ELSE rolling_rms
      level == IF noise_complete
               THEN ApplyVuFloor(vu, CONFIG.VU_LEVEL_FLOOR)
               ELSE vu
  IN  /\ pc = "vu"
      /\ pc' = "gdft"
      /\ silence_counter' = counter
      /\ SILENCE_GATE_ACTIVE' = gate
      /\ audio_vu_level_last' = audio_vu_level
      /\ rolling_rms' = rolling
      /\ AGC_GAIN' = NextAgcGain(AGC_ENABLED, AGC_GAIN, rolling)
      /\ CONFIG' =
           [CONFIG EXCEPT !.VU_LEVEL_FLOOR =
              IF noise_complete THEN Min(VU_FLOOR_CAP, @)
              ELSE RaiseVuFloor(vu, @)]
      /\ audio_vu_level' = level
      /\ audio_vu_level_average' = (level + audio_vu_level) \div 2
      /\ UNCHANGED <<cycles, t_now, readVars, condVars, zoneVars,
                     noise_complete, noise_iterations, dc_offset_sum, cal_pre,
                     AGC_ENABLED, ledVars, auxVars>>

----------------------------------------------------------------------------
(* process_GDFT(), called at main.cpp:360. Its file is not part of the
   sources; what is modelled is the calibration bookkeeping of section 4.6
   of the specification: calibration runs for a fixed number of cycles and
   its completion sets the flag and seeds the DC baseline. *)

ProcessGDFT ==
  LET iterations == noise_iterations + 1
      completes == ~noise_complete /\ iterations >= NOISE_CAL_ITERATIONS
  IN  /\ pc = "gdft"
      /\ pc' = "acquire"
      /\ cycles' = IF cycles < CycleCap THEN cycles + 1 ELSE cycles
      /\ noise_iterations' = IF noise_complete THEN noise_iterations
                             ELSE iterations
      /\ noise_complete' = (noise_complete \/ completes)
      /\ CONFIG' =
           IF completes
           THEN [CONFIG EXCEPT !.DC_OFFSET =
                   TruncDiv(dc_offset_sum, NOISE_CAL_ITERATIONS)]
           ELSE CONFIG
      /\ UNCHANGED <<t_now, readVars, condVars, zoneVars, dc_offset_sum,
                     cal_pre, vuVars, ledVars, auxVars>>

----------------------------------------------------------------------------
(* The collaborators of the engine *)

\* the configuration collaborator swaps agc_enabled between cycles
\* (section 5 of the specification; AGC_ENABLED is the runtime toggle of
\* globals.h:496)
SetAgcEnabled(b) ==
  /\ pc = "acquire"
  /\ AGC_ENABLED # b
  /\ AGC_ENABLED' = b
  /\ UNCHANGED <<loopVars, readVars, condVars, zoneVars, calVars, AGC_GAIN,
                 SILENCE_GATE_ACTIVE, silence_counter, rolling_rms,
                 audio_vu_level, audio_vu_level_last, audio_vu_level_average,
                 ledVars, auxVars>>

\* start_noise_cal(), called at led_utilities.h:1168; its file is not part
\* of the sources. Calibration starts over: the flag is cleared, the
\* iteration count and the DC accumulator restart.
StartNoiseCal ==
  /\ pc = "acquire"
  /\ noise_complete
  /\ noise_complete' = FALSE
  /\ noise_iterations' = 0
  /\ dc_offset_sum' = 0
  /\ cal_pre' = CalibratedValues(CONFIG)
  /\ UNCHANGED <<loopVars, readVars, condVars, zoneVars, CONFIG, vuVars,
                 ledVars, auxVars>>

\* the external command that aborts a running calibration (section 5 of the
\* specification). The sources keep no copy of the values calibration
\* adjusts, so the abort ends the run and nothing else.
AbortNoiseCal ==
  /\ pc = "acquire"
  /\ ~noise_complete
  /\ noise_complete' = TRUE
  /\ UNCHANGED <<loopVars, readVars, condVars, zoneVars, noise_iterations,
                 dc_offset_sum, CONFIG, cal_pre, vuVars, ledVars, auxVars>>

----------------------------------------------------------------------------
(* led_thread, main.cpp:450-617, pinned to core 1 (main.cpp:238-246); every
   frame ends in show_leds(), whose apply_brightness() reads the VU level
   and then the standby scale (led_utilities.h:239-241) *)

\* the engine cycle whose calculate_vu wrote the audio_vu_level now in memory
VuWrittenBy == IF pc = "gdft" THEN cycles + 1 ELSE cycles

\* the engine cycle whose acquire_sample_chunk wrote the silent_scale now in
\* memory
ScaleWrittenBy == IF pc = "acquire" THEN cycles ELSE cycles + 1

\* the frame saves the primary settings and puts the secondary strip's in
\* CONFIG (main.cpp:506-530, ENABLE_SECONDARY_LEDS is true)
LedSecondaryApply ==
  /\ led_pc = "secondary"
  /\ led_frames < MaxLedFrames
  /\ led_pc' = "restore"
  /\ saved_mood' = CONFIG.MOOD
  /\ CONFIG' = [CONFIG EXCEPT !.MOOD = SECONDARY_MOOD]
  /\ UNCHANGED <<peripheralVars, noiseVars, sourceVars, goertzelVars, loopVars, readVars, condVars, zoneVars, noise_complete,
                 noise_iterations, dc_offset_sum, cal_pre, vuVars,
                 led_frames, led_obs, guardVars, SECONDARY_MOOD, knobVars>>

\* after the secondary strip is rendered the saved settings are written back
\* (main.cpp:574-581)
LedSecondaryRestore ==
  /\ led_pc = "restore"
  /\ led_pc' = "hdr_boost"
  /\ CONFIG' = [CONFIG EXCEPT !.MOOD = saved_mood]
  /\ UNCHANGED <<peripheralVars, noiseVars, sourceVars, goertzelVars, loopVars, readVars, condVars, zoneVars, noise_complete,
                 noise_iterations, dc_offset_sum, cal_pre, vuVars,
                 led_frames, led_obs, guardVars, secondaryVars, knobVars>>

\* hdr_boost = 1.0 + audio_vu_level
LedHdrBoost ==
  /\ led_pc = "hdr_boost"
  /\ led_frames < MaxLedFrames
  /\ led_pc' = "brightness"
  /\ led_obs' = [led_obs EXCEPT !.vu = audio_vu_level, !.vu_cycle = VuWrittenBy]
  /\ UNCHANGED <<loopVars, readVars, condVars, zoneVars, calVars, vuVars,
                 led_frames, auxVars>>

\* brightness = MASTER_BRIGHTNESS * PHOTONS^2 * silent_scale * hdr_boost
LedBrightness ==
  /\ led_pc = "brightness"
  /\ led_pc' = "secondary"
  /\ led_frames' = led_frames + 1
  /\ led_obs' = [led_obs EXCEPT !.scale = silent_scale,
                                !.scale_cycle = ScaleWrittenBy]
  /\ UNCHANGED <<loopVars, readVars, condVars, zoneVars, calVars, vuVars,
                 auxVars>>

----------------------------------------------------------------------------
(* check_knobs, knobs.h:10-86, the first call of a main loop pass
   (main.cpp:320), and check_encoders, encoders.h:59, run by the encoder task
   every 20 ms (main.cpp:273-281); values in 1/1000 *)

\* smoothing_top_half = max(0, CONFIG.MOOD - 0.5) * 2
SmoothingTopHalf(mood) == Max(0, mood - 500) * 2

\* smoothing_follower = 0.100 + smoothing_top_half * 0.300
SmoothingFollower(top_half) == 100 + (top_half * 300) \div 1000

\* smoothing_exp_average = 1.0 - smoothing_bottom_half, the bottom half being
\* (1 - min(0, (CONFIG.MOOD - 0.5) * 2) * -1) * 0.9 + 0.1
SmoothingExpAverage(mood) ==
  LET below == -Min((mood - 500) * 2, 0)
  IN  1000 - (((1000 - below) * 900) \div 1000 + 100)

\* the first read of CONFIG.MOOD (knobs.h:68-72)
CheckKnobsTop ==
  /\ pc = "acquire"
  /\ knob_pc = "top"
  /\ knob_passes = cycles
  /\ knob_pc' = "bottom"
  /\ smoothing_top_half' = SmoothingTopHalf(CONFIG.MOOD)
  /\ UNCHANGED <<peripheralVars, noiseVars, sourceVars, goertzelVars, loopVars, readVars, condVars, zoneVars, calVars, vuVars,
                 ledVars, guardVars, secondaryVars, knob_passes,
                 smoothing_follower, smoothing_exp_average>>

\* the second read of CONFIG.MOOD and the two results (knobs.h:74-85)
CheckKnobsBottom ==
  /\ pc = "acquire"
  /\ knob_pc = "bottom"
  /\ knob_pc' = "top"
  /\ knob_passes' = knob_passes + 1
  /\ smoothing_follower' = SmoothingFollower(smoothing_top_half)
  /\ smoothing_exp_average' = SmoothingExpAverage(CONFIG.MOOD)
  /\ UNCHANGED <<peripheralVars, noiseVars, sourceVars, goertzelVars, loopVars, readVars, condVars, zoneVars, calVars, vuVars,
                 ledVars, guardVars, secondaryVars, smoothing_top_half>>

\* counts of the mood encoder per unit of mood
ENCODER_SENSITIVITY_DIVISOR == 120

\* channel 2 of check_encoders: the mood encoder turned by mood_rel counts,
\* with the mode switch selecting the secondary strip or not
CheckEncoders(mood_rel, secondaryMode) ==
  LET current_val == IF secondaryMode THEN SECONDARY_MOOD ELSE CONFIG.MOOD
      new_value == Clamp(current_val
                           + TruncDiv(mood_rel * 1000, ENCODER_SENSITIVITY_DIVISOR),
                         0, 1000)
  IN  /\ new_value # current_val
      /\ CONFIG' = IF secondaryMode THEN CONFIG
                                    ELSE [CONFIG EXCEPT !.MOOD = new_value]
      /\ SECONDARY_MOOD' = IF secondaryMode THEN new_value ELSE SECONDARY_MOOD
      /\ encoder_mood' = IF secondaryMode THEN encoder_mood ELSE new_value
      /\ UNCHANGED <<mag_followers, follower_updates, chunk_config,
                     chunk_touched, settingsVars, safe_fs, history_frame,
                     goertzel_q, noiseVars, sourceVars, goertzelVars, loopVars, readVars, condVars, zoneVars, noise_complete,
                     noise_iterations, dc_offset_sum, cal_pre, vuVars,
                     ledVars, guardVars, saved_mood, knobVars>>

----------------------------------------------------------------------------
(* AudioGuard, audio_guard.h; its call sites in main.cpp (194-195 and 329)
   are the places the guard steps are taken *)

\* seconds between two validations, in ms
GUARD_CHECK_INTERVAL_MS == 1000

\* the level blockPhantomTriggers puts in place of a zero minimum
GUARD_SAFE_MIN_LEVEL == 100

\* AudioRawState::validateState
RawStateValid ==
  /\ guard_prefix = "GUARD_MAGIC"
  /\ guard_suffix = "GUARD_MAGIC"
  /\ waveform_history_index < 4

\* a guard that replaces every minimum level below its safe default
BlockPhantomTriggers_BelowDefault(cfg) ==
  IF cfg.SWEET_SPOT_MIN_LEVEL < GUARD_SAFE_MIN_LEVEL
    THEN [cfg EXCEPT !.SWEET_SPOT_MIN_LEVEL = GUARD_SAFE_MIN_LEVEL]
    ELSE cfg

\* the configuration part of blockPhantomTriggers
BlockPhantomTriggers(cfg) ==
  IF cfg.SWEET_SPOT_MIN_LEVEL = 0
    THEN [cfg EXCEPT !.SWEET_SPOT_MIN_LEVEL = GUARD_SAFE_MIN_LEVEL]
    ELSE cfg

\* checkIntegrity(t_now): the first call initialises the guard; later calls
\* return unless a second has passed, and otherwise run validateAudioState,
\* which reports what it finds on the serial port and writes nothing
CheckIntegrity ==
  /\ pc = "acquire"
  /\ IF ~guard_initialized
       THEN /\ guard_initialized' = TRUE
            /\ last_guard_check' = t_now
            /\ CONFIG' = BlockPhantomTriggers(CONFIG)
       ELSE /\ U32Sub(t_now, last_guard_check) >= GUARD_CHECK_INTERVAL_MS
            /\ last_guard_check' = t_now
            /\ UNCHANGED <<guard_initialized, CONFIG>>
  /\ UNCHANGED <<peripheralVars, noiseVars, sourceVars, goertzelVars, secondaryVars, knobVars,
                 loopVars, readVars, condVars, zoneVars, noise_complete,
                 noise_iterations, dc_offset_sum, cal_pre, vuVars, ledVars,
                 guard_prefix, guard_suffix, corruption_count>>

\* load_config(), bridge_fs.h:133-172: the stored configuration is copied
\* over CONFIG (line 160), here with the stored user-adjustable values. Its
\* callers are not among the sources; it is taken before the first cycle.
LoadConfig(sensitivity, min_level, max_level, sample_rate) ==
  /\ pc = "acquire"
  /\ cycles = 0
  /\ ~guard_initialized
  /\ CONFIG' = [CONFIG EXCEPT !.SENSITIVITY = sensitivity,
                              !.SWEET_SPOT_MIN_LEVEL = min_level,
                              !.SWEET_SPOT_MAX_LEVEL = max_level,
                              !.SAMPLE_RATE = sample_rate]
  /\ CONFIG' # CONFIG
  /\ UNCHANGED <<loopVars, readVars, condVars, zoneVars, noise_complete,
                 noise_iterations, dc_offset_sum, cal_pre, vuVars, ledVars,
                 auxVars>>

\* a store outside its object lands on one of the guard words that bracket
\* the raw audio buffers
StrayWrite ==
  /\ RawStateValid
  /\ \E word \in {"prefix", "suffix"} :
       /\ guard_prefix' = IF word = "prefix" THEN "overwritten" ELSE guard_prefix
       /\ guard_suffix' = IF word = "suffix" THEN "overwritten" ELSE guard_suffix
  /\ UNCHANGED <<peripheralVars, noiseVars, sourceVars, goertzelVars, secondaryVars, knobVars,
                 loopVars, readVars, condVars, zoneVars, calVars, vuVars,
                 ledVars, guard_initialized, last_guard_check,
                 corruption_count>>

----------------------------------------------------------------------------
(* The noise profile is written to its file and read back *)

\* save_ambient_noise_calibration: four bytes per bin, in bin order
SaveAmbientNoiseCalibration ==
  /\ noise_pc = "save"
  /\ noise_pc' = "load"
  /\ noise_file' =
       [k \in 1 .. 4 * NUM_FREQS |->
          FloatBytes(FloatOfFixed(noise_samples[(k - 1) \div 4]))[((k - 1) % 4) + 1]]
  /\ UNCHANGED <<loopVars, readVars, condVars, zoneVars, calVars, vuVars,
                 ledVars, guardVars, secondaryVars, knobVars, goertzelVars,
                 peripheralVars, sourceVars, noise_samples>>

\* load_ambient_noise_calibration: four bytes per bin are read back and
\* converted
LoadAmbientNoiseCalibration ==
  /\ noise_pc = "load"
  /\ noise_pc' = "save"
  /\ \E out_of_range \in {2147483647, -2147483647 - 1} :
       noise_samples' =
         [i \in 0 .. NUM_FREQS - 1 |->
            FixedOfFloat(BytesFloat(SubSeq(noise_file, 4 * i + 1, 4 * i + 4)),
                         out_of_range)]
  /\ UNCHANGED <<loopVars, readVars, condVars, zoneVars, calVars, vuVars,
                 ledVars, guardVars, secondaryVars, knobVars, goertzelVars,
                 peripheralVars, sourceVars, noise_file>>

----------------------------------------------------------------------------
(* The two loops over the bin table *)

\* one pass of the loop of precompute_goertzel_constants (called once, at
\* the end of init_system, system.h:393)
PrecomputeBin ==
  /\ goertzel_pc = "precompute"
  /\ frequencies' = [frequencies EXCEPT
                       ![goertzel_i] = FreqEntry(CONFIG.SAMPLE_RATE, goertzel_i)]
  /\ goertzel_i' = (goertzel_i + 1) % NUM_FREQS
  /\ goertzel_pc' = IF goertzel_i = NUM_FREQS - 1 THEN "gdft" ELSE "precompute"
  /\ UNCHANGED <<peripheralVars, noiseVars, sourceVars, loopVars, readVars, condVars, zoneVars, calVars, vuVars,
                 ledVars, guardVars, secondaryVars, knobVars, gdft_n,
                 gdft_inv, magnitude_normalized>>

\* one pass of the bin loop of GDFT_optimized, the recursion over the bin's
\* window ending with the given magnitude (q1 = q2 = 0, so magnitude 0, when
\* the window is empty)
GdftBin(magnitude) ==
  /\ goertzel_pc = "gdft"
  /\ gdft_n' = SamplesIterated(frequencies[goertzel_i].block_size_optimized)
  /\ gdft_inv' = frequencies[goertzel_i].inv_block_size_half
  /\ magnitude_normalized' =
       (IF frequencies[goertzel_i].block_size_optimized = 0 THEN 0
        ELSE magnitude) * frequencies[goertzel_i].inv_block_size_half
  /\ goertzel_i' = (goertzel_i + 1) % NUM_FREQS
  /\ UNCHANGED <<peripheralVars, noiseVars, sourceVars, loopVars, readVars, condVars, zoneVars, calVars, vuVars,
                 ledVars, guardVars, secondaryVars, knobVars, goertzel_pc,
                 frequencies>>

\* a decay that takes the whole gap and the attack's half on top of it
NextMagFollower_Overshoot(follower, magnitude, exp_average) ==
  IF magnitude > follower THEN follower + (magnitude - follower) \div 2
  ELSE follower - ((follower - magnitude) * 3) \div 2

\* mag_followers[i] after its pass of the follower loop
\* (GDFT_optimized.h:117-123): half of the gap up, the fraction
\* 0.0025 + 0.025 * smoothing_exp_average of the gap down; the fraction is in
\* 1/1000000 and the product is taken in two parts to stay within 32 bits
NextMagFollower(follower, magnitude, exp_average) ==
  IF magnitude > follower THEN follower + (magnitude - follower) \div 2
  ELSE IF magnitude < follower
  THEN LET delta == follower - magnitude
           fraction == 2500 + 25 * exp_average
           whole == (delta \div 1000) * fraction
       IN  follower - (whole \div 1000
                         + ((whole % 1000) * 1000 + (delta % 1000) * fraction)
                             \div 1000000)
  ELSE follower

\* the pass of the follower loop for the bin whose magnitude the bin loop
\* computed last
FollowBin ==
  LET i == (goertzel_i + NUM_FREQS - 1) % NUM_FREQS
  IN  /\ goertzel_pc = "gdft"
      /\ follower_updates < MaxFollowerUpdates
      /\ follower_updates' = follower_updates + 1
      /\ mag_followers' =
           [mag_followers EXCEPT
              ![i] = NextMagFollower(@, magnitude_normalized,
                                     smoothing_exp_average)]
      /\ UNCHANGED <<loopVars, readVars, condVars, zoneVars, calVars, vuVars,
                     ledVars, guardVars, secondaryVars, knobVars,
                     goertzelVars, sourceVars, noiseVars, chunk_config,
                     chunk_touched, encoder_mood, settingsVars, safe_fs,
                 history_frame, goertzel_q>>

----------------------------------------------------------------------------
(* The indices acquire_sample_chunk uses, at the scale of the device: the
   chunk buffers samples_raw_[1024], waveform[1024], waveform_fixed_point[1024]
   and waveform_history_[4][1024] are indexed by 0 <= i < SAMPLES_PER_CHUNK
   (i2s_audio.h:64, 78-111, 313-316), sample_window[SAMPLE_HISTORY_LENGTH] by
   the two loops of the shift (i2s_audio.h:304-309) *)

\* entries of each chunk buffer (globals.h:203, audio_raw_state.h:36-40)
CHUNK_CAPACITY == 1024

\* the lowest and highest index used with n samples per chunk; the shift
\* reads sample_window[i + n] for 0 <= i < LENGTH - n and writes
\* sample_window[i] for LENGTH - n <= i < LENGTH, in int arithmetic
ChunkTouches(n) ==
  LET first == GOERTZEL_HISTORY_LENGTH - n
  IN  [chunk_hi  |-> n - 1,
       window_lo |-> Min(first, 0),
       window_hi |-> GOERTZEL_HISTORY_LENGTH - 1]

\* load_config copies the stored SAMPLES_PER_CHUNK, any uint16_t, over
\* CONFIG (bridge_fs.h:160)
LoadChunkConfig(n) ==
  /\ chunk_config' = n
  /\ n # chunk_config
  /\ UNCHANGED <<loopVars, readVars, condVars, zoneVars, calVars, vuVars,
                 ledVars, guardVars, secondaryVars, knobVars, goertzelVars,
                 sourceVars, noiseVars, mag_followers, follower_updates,
                 chunk_touched, encoder_mood, settingsVars, safe_fs,
                 history_frame, goertzel_q>>

\* the buffer accesses of one acquire_sample_chunk
AcquireIndexing ==
  /\ chunk_touched' = ChunkTouches(chunk_config)
  /\ chunk_touched' # chunk_touched
  /\ UNCHANGED <<loopVars, readVars, condVars, zoneVars, calVars, vuVars,
                 ledVars, guardVars, secondaryVars, knobVars, goertzelVars,
                 sourceVars, noiseVars, mag_followers, follower_updates,
                 chunk_config, encoder_mood, settingsVars, safe_fs,
                 history_frame, goertzel_q>>

----------------------------------------------------------------------------
(* The delayed save of the settings: the encoder task (main.cpp:273-281)
   marks the settings as changed where it writes one and sets the time of
   the save at the end of check_encoders; the main loop tests both in
   check_settings (main.cpp:332) *)

\* ms check_encoders puts between a change and the save (encoders.h:445)
SAVE_DELAY_MS == 3000

\* ms between two readings of the clock
SettingsStep == 1000

\* the clock is followed up to this time
MaxSettingsClock == 8000

\* the variables of the engine, the LED task, the guard, the knobs, the bin
\* loop, the noise file, the followers and the chunk indices
workVars ==
  <<loopVars, readVars, condVars, zoneVars, calVars, vuVars, ledVars,
    guardVars, secondaryVars, knobVars, goertzelVars, sourceVars, noiseVars,
    mag_followers, follower_updates, chunk_config, chunk_touched,
    encoder_mood>>

\* all variables that the encoder task leaves alone
baseVars == <<workVars, safe_fs, history_frame, goertzel_q>>

\* time passes
SettingsTick ==
  /\ settings_clock < MaxSettingsClock
  /\ settings_clock' = settings_clock + SettingsStep
  /\ UNCHANGED <<settings_updated, next_save_time, encoder_pc, encoder_t_now,
                 last_setting_change, save_gap, rotate8, baseVars>>

\* check_encoders(now) finds a channel turned and writes the setting:
\* activity_detected and settings_updated are set (encoders.h:221-228)
EncoderWrite ==
  /\ encoder_pc = "idle"
  /\ encoder_pc' = "activity"
  /\ encoder_t_now' = settings_clock
  /\ last_setting_change' = settings_clock
  /\ settings_updated' = TRUE
  /\ UNCHANGED <<next_save_time, settings_clock, save_gap, rotate8,
                 baseVars>>

\* the end of the same call: next_save_time = t_now + 3000
\* (encoders.h:443-446)
EncoderActivity ==
  /\ encoder_pc = "activity"
  /\ encoder_pc' = "idle"
  /\ next_save_time' = encoder_t_now + SAVE_DELAY_MS
  /\ UNCHANGED <<settings_updated, settings_clock, encoder_t_now,
                 last_setting_change, save_gap, rotate8, baseVars>>

\* check_settings(t_now) of the main loop (system.h:439-449), on a call that
\* saves
CheckSettings ==
  /\ settings_updated
  /\ settings_clock >= next_save_time
  /\ save_gap' = settings_clock - last_setting_change
  /\ settings_updated' = FALSE
  /\ UNCHANGED <<next_save_time, settings_clock, encoder_pc, encoder_t_now,
                 last_setting_change, rotate8, baseVars>>

----------------------------------------------------------------------------
(* The availability of the encoder module: init_encoders at boot, then
   check_encoders and update_encoder_leds every 20 ms in the encoder task
   (main.cpp:273-281) *)

\* calls of check_encoders between two heartbeat or warning lines
HeartbeatCalls == 3

\* errors check_encoders accepts before it enters the recovery mode
\* (encoders.h:179)
ENCODER_ERROR_LIMIT == 5

RotateOthers ==
  <<settings_updated, next_save_time, settings_clock, encoder_pc,
    encoder_t_now, last_setting_change, save_gap, baseVars>>

\* setup calls init_encoders: attempt_rotate8_init(true) sets
\* g_rotate8_available to the outcome of rotate8.begin()
InitEncoders ==
  /\ ~rotate8.started
  /\ rotate8' = [rotate8 EXCEPT !.started = TRUE,
                                !.available = rotate8.responds]
  /\ UNCHANGED RotateOthers

\* check_encoders with the relative counter the bus returns: "none", "turn"
\* or a "glitch" outside -40 .. 40
CheckEncodersHealth(reading) ==
  LET r == [rotate8 EXCEPT !.calls = (@ + 1) % HeartbeatCalls]
      \* line 114-137: the recovery attempt of a call in the error state
      recovered ==
        IF r.error_state
        THEN [r EXCEPT !.available = r.responds, !.reattempted = TRUE,
                       !.error_state = ~r.responds,
                       !.error_count = IF r.responds THEN 0 ELSE @]
        ELSE r
      \* safeGetRelCounter, lines 149-189
      count == IF reading = "glitch" THEN recovered.error_count + 1
               ELSE IF reading = "turn" THEN 0
               ELSE recovered.error_count
      read == IF count > ENCODER_ERROR_LIMIT
              THEN [recovered EXCEPT !.error_count = count,
                                     !.error_state = TRUE,
                                     !.available = FALSE,
                                     !.reattempted = FALSE]
              ELSE [recovered EXCEPT !.error_count = count]
  IN  /\ rotate8.started
      /\ rotate8' = IF ~rotate8.available THEN r
                    ELSE IF ~recovered.available THEN recovered
                    ELSE read
      /\ UNCHANGED RotateOthers

\* update_encoder_leds with the outcome of its writeRGB
UpdateEncoderLeds(write_success) ==
  /\ rotate8.started
  /\ rotate8.available
  /\ ~write_success
  /\ rotate8' = [rotate8 EXCEPT !.available = FALSE, !.error_state = TRUE,
                                !.reattempted = FALSE]
  /\ UNCHANGED RotateOthers

\* the module is unplugged or plugged in again
DeviceToggle ==
  /\ rotate8' = [rotate8 EXCEPT !.responds = ~@]
  /\ UNCHANGED RotateOthers

----------------------------------------------------------------------------
(* SafeFile, phase0_filesystem_safe.h: write() builds the new file in
   path.tmp, moves the current file to path.bak and renames the temporary
   file to path; read() takes path, or path.bak where path is missing, and
   checks header, size and CRC. Each LittleFS call succeeds or fails; a
   rename replaces an existing destination. *)

\* write calls followed
MaxSafeWrites == 4

\* SafeFile::write of the data of the n-th call, with the outcome ok[s] of
\* each LittleFS call
SafeFileWritten(fs, ok) ==
  LET n == fs.writes + 1
      failed(temp) == [fs EXCEPT !.writes = n, !.temp = temp,
                                 !.status = "WRITE_FAILED"]
      \* lines 195-200: the current file becomes the backup
      old_removed == IF fs.primary # 0 /\ ok["remove_backup"] THEN 0
                     ELSE fs.backup
      moved == fs.primary # 0 /\ ok["backup"]
      backup == IF moved THEN fs.primary ELSE old_removed
      primary == IF moved THEN 0 ELSE fs.primary
      \* lines 203-212: the commit failed, the backup is put back
      restored == backup # 0 /\ ok["restore"]
  IN  IF ~ok["open"] THEN failed(fs.temp)
      ELSE IF ~ok["header"] \/ ~ok["data"]
      THEN failed(IF ok["cleanup"] THEN 0 ELSE -n)
      ELSE IF ok["commit"]
      THEN [primary |-> n, backup |-> backup, temp |-> 0, writes |-> n,
            last_ok |-> n, status |-> "OK"]
      ELSE [primary |-> IF restored THEN backup ELSE primary,
            backup |-> IF restored THEN 0 ELSE backup,
            temp |-> n, writes |-> n, last_ok |-> fs.last_ok,
            status |-> "WRITE_FAILED"]

\* SafeFile::read with a buffer of the size of the data
SafeFileRead(fs) ==
  LET file == IF fs.primary # 0 THEN fs.primary ELSE fs.backup
  IN  IF file = 0 THEN [status |-> "FILE_NOT_FOUND", data |-> 0]
      ELSE IF file < 0 THEN [status |-> "READ_FAILED", data |-> 0]
      ELSE [status |-> "OK", data |-> file]

SafeFileWrite(ok) ==
  /\ safe_fs.writes < MaxSafeWrites
  /\ safe_fs' = SafeFileWritten(safe_fs, ok)
  /\ UNCHANGED <<workVars, settingsVars, history_frame, goertzel_q>>

----------------------------------------------------------------------------
(* AudioRawState::getHistoryFrame, audio_raw_state.h *)

\* uint8_t idx = (waveform_history_index_ + 4 - frame_offset) % 4: the
\* operands are promoted to int, % keeps the sign of the dividend, and the
\* result is converted to uint8_t
HistoryFrameIndex(index, frame_offset) ==
  LET x == index + 4 - frame_offset
      rem == x - TruncDiv(x, 4) * 4
  IN  (rem + 256) % 256

\* a call getHistoryFrame(frame_offset)
GetHistoryFrame(frame_offset) ==
  /\ history_frame' =
       [offset |-> frame_offset, index |-> waveform_history_index,
        idx |-> HistoryFrameIndex(waveform_history_index, frame_offset)]
  /\ history_frame' # history_frame
  /\ UNCHANGED <<workVars, settingsVars, safe_fs, goertzel_q>>

----------------------------------------------------------------------------
(* The Goertzel loops of a bin in GDFT_optimized (GDFT_optimized.h:47-85):
   four samples at a time while n < (block_size & ~3), then the remaining
   samples one at a time. >> is the arithmetic shift; the windows followed
   keep every value inside int32_t. *)

\* samples of the longest window
MaxWindow == 8

\* the single-sample recurrence (lines 80-84):
\* q0 = (x >> 2) + ((coeff_q15 * q1) >> 15) - q2; q2 = q1; q1 = q0,
\* with the 64-bit product shifted in two parts
GoertzelStep(q, x, coeff) ==
  LET high == q[1] \div 32768
      low == q[1] % 32768
      mult == coeff * high + (coeff * low) \div 32768
  IN  <<(x \div 4) + mult - q[2], q[1]>>

\* a wrong unrolled body: the third sample subtracts q1 of the loop entry
UnrolledBlock_StaleQ1(q, s, coeff) ==
  LET m(v) == coeff * (v \div 32768) + (coeff * (v % 32768)) \div 32768
      q0_1 == (s[1] \div 4) + m(q[1]) - q[2]
      q0_2 == (s[2] \div 4) + m(q0_1) - q[1]
      q0_3 == (s[3] \div 4) + m(q0_2) - q[1]
      q0_4 == (s[4] \div 4) + m(q0_3) - q0_2
  IN  <<q0_4, q0_3>>

\* the body of the unrolled loop on the samples s[1] .. s[4] (lines 54-75)
UnrolledBlock(q, s, coeff) ==
  LET m(v) == coeff * (v \div 32768) + (coeff * (v % 32768)) \div 32768
      q0_1 == (s[1] \div 4) + m(q[1]) - q[2]
      q0_2 == (s[2] \div 4) + m(q0_1) - q[1]
      q0_3 == (s[3] \div 4) + m(q0_2) - q0_1
      q0_4 == (s[4] \div 4) + m(q0_3) - q0_2
  IN  <<q0_4, q0_3>>

\* the loop of a bin starts on its window: q1 = q2 = 0, n = 0
GoertzelStart(samples, coeff) ==
  /\ goertzel_q.samples = << >>
  /\ goertzel_q' = [samples |-> samples, coeff |-> coeff, n |-> 0,
                    q1 |-> 0, q2 |-> 0, r1 |-> 0, r2 |-> 0]
  /\ goertzel_q' # goertzel_q
  /\ UNCHANGED <<workVars, settingsVars, safe_fs, history_frame>>

\* an iteration of the unrolled loop
UnrolledIteration ==
  LET g == goertzel_q
      block_size == Len(g.samples)
      s == [k \in 1 .. 4 |-> g.samples[g.n + k]]
      q == UnrolledBlock(<<g.q1, g.q2>>, s, g.coeff)
      r == GoertzelStep(GoertzelStep(GoertzelStep(GoertzelStep(
             <<g.r1, g.r2>>, s[1], g.coeff), s[2], g.coeff), s[3], g.coeff),
             s[4], g.coeff)
  IN  /\ g.n < block_size - (block_size % 4)
      /\ goertzel_q' = [g EXCEPT !.n = g.n + 4, !.q1 = q[1], !.q2 = q[2],
                                 !.r1 = r[1], !.r2 = r[2]]
      /\ UNCHANGED <<workVars, settingsVars, safe_fs, history_frame>>

\* an iteration of the loop over the remaining samples
RemainderIteration ==
  LET g == goertzel_q
      block_size == Len(g.samples)
      q == GoertzelStep(<<g.q1, g.q2>>, g.samples[g.n + 1], g.coeff)
      r == GoertzelStep(<<g.r1, g.r2>>, g.samples[g.n + 1], g.coeff)
  IN  /\ g.n >= block_size - (block_size % 4)
      /\ g.n < block_size
      /\ goertzel_q' = [g EXCEPT !.n = g.n + 1, !.q1 = q[1], !.q2 = q[2],
                                 !.r1 = r[1], !.r2 = r[2]]
      /\ UNCHANGED <<workVars, settingsVars, safe_fs, history_frame>>

----------------------------------------------------------------------------
(* A call of i2s_read, from entry to return *)

\* the caller enters i2s_read
ReadBegin(r) ==
  /\ ~source_reads[r].blocked
  /\ source_reads' = [source_reads EXCEPT
                        ![r] = [blocked |-> TRUE, ticks_to_wait |-> TicksToWait(r),
                                waited |-> 0, bytes_read |-> 0]]
  /\ UNCHANGED <<loopVars, readVars, condVars, zoneVars, calVars, vuVars,
                 ledVars, guardVars, secondaryVars, knobVars, goertzelVars, noiseVars, peripheralVars>>

\* one more sample arrives for a blocked caller; the call returns when the
\* request is complete
ReadArrive(r) ==
  LET bytes == source_reads[r].bytes_read + 4
  IN  /\ source_reads[r].blocked
      /\ source_reads' = [source_reads EXCEPT
                            ![r].bytes_read = bytes,
                            ![r].blocked = bytes < RequestedBytes]
      /\ UNCHANGED <<loopVars, readVars, condVars, zoneVars, calVars, vuVars,
                     ledVars, guardVars, secondaryVars, knobVars,
                     goertzelVars, noiseVars, peripheralVars>>

\* what a tick does to one call: a blocked caller with a limited wait has
\* waited one tick more and returns when its wait is over
AfterTick(read) ==
  IF read.blocked /\ read.ticks_to_wait # portMAX_DELAY
    THEN [read EXCEPT !.waited = @ + 1,
                      !.blocked = read.waited + 1 < read.ticks_to_wait]
    ELSE read

\* the tick interrupt
ReadTick ==
  /\ source_reads' = [r \in Sources |-> AfterTick(source_reads[r])]
  /\ UNCHANGED <<loopVars, readVars, condVars, zoneVars, calVars, vuVars,
                 ledVars, guardVars, secondaryVars, knobVars, goertzelVars, noiseVars, peripheralVars>>

----------------------------------------------------------------------------
(* Inputs and specifications *)

\* raw I2S samples: the configured DC level (conditions to 0), a quiet
\* level (conditions to 4 before gain), digital zero (5920), a loud level
\* (32000) and a moderate level (8000)
RAW_DC_LEVEL == -14800 * 16384

RAW_QUIET == -14790 * 16384

RAW_ZERO == 0 * 16384

RAW_LOUD == 65200 * 16384

RAW_MODERATE == 5200 * 16384

\* a block that delivers the same sample n times
Block(raw, n) == [i \in 1 .. n |-> raw]

FullBlocks(levels) == {Block(r, SAMPLES_PER_CHUNK) : r \in levels}

\* a read that times out delivers nothing
TimedOut == << >>

\* a few cycles on every kind of input, short reads and AGC switching
Next ==
  \/ /\ cycles < MaxCycles
     /\ \E dt \in {8, 1600},
           data \in FullBlocks({RAW_DC_LEVEL, RAW_QUIET, RAW_LOUD}) \cup {TimedOut} :
          AcquireSampleChunk(dt, data)
  \/ CalculateVu
  \/ ProcessGDFT
  \/ \E b \in BOOLEAN : SetAgcEnabled(b)

Spec == Init /\ [][Next]_vars

\* enough cycles of silence and sound for the silence gate to assert
GateNext ==
  \/ /\ cycles < GateCycles
     /\ \E data \in FullBlocks({RAW_DC_LEVEL, RAW_LOUD}) :
          AcquireSampleChunk(8, data)
  \/ CalculateVu
  \/ ProcessGDFT

GateSpec == Init /\ [][GateNext]_vars

\* one cycle of sound and then silence for long enough for the gate to
\* assert, with calibration runs started on the way
GateCalNext ==
  \/ /\ cycles < GateCycles
     /\ \E data \in FullBlocks({RAW_DC_LEVEL, RAW_LOUD}) :
          /\ cycles = 0 \/ data = Block(RAW_DC_LEVEL, SAMPLES_PER_CHUNK)
          /\ AcquireSampleChunk(8, data)
  \/ CalculateVu
  \/ ProcessGDFT
  \/ StartNoiseCal

GateCalSpec == Init /\ [][GateCalNext]_vars

\* the engine on core 0 and the LED task on core 1
TaskNext ==
  \/ /\ cycles < MaxCycles
     /\ \E data \in FullBlocks({RAW_DC_LEVEL, RAW_LOUD}) :
          AcquireSampleChunk(1600, data)
  \/ CalculateVu
  \/ ProcessGDFT
  \/ LedSecondaryApply
  \/ LedSecondaryRestore
  \/ LedHdrBoost
  \/ LedBrightness

TaskSpec == Init /\ [][TaskNext]_vars

\* calibration runs, started and aborted between cycles
CalNext ==
  \/ /\ cycles < MaxCycles
     /\ \E data \in FullBlocks({RAW_QUIET, RAW_MODERATE, RAW_LOUD}) :
          AcquireSampleChunk(8, data)
  \/ CalculateVu
  \/ ProcessGDFT
  \/ StartNoiseCal
  \/ AbortNoiseCal

CalSpec == Init /\ [][CalNext]_vars

\* the input holds one level for ever and AGC is set before the first cycle
HoldNext ==
  \/ \E data \in FullBlocks({RAW_ZERO, RAW_DC_LEVEL, RAW_LOUD}) :
       /\ cycles = 0 \/ data = samples_raw
       /\ AcquireSampleChunk(2671, data)
  \/ CalculateVu
  \/ ProcessGDFT
  \/ /\ cycles = 0
     /\ \E b \in BOOLEAN : SetAgcEnabled(b)

HoldSpec == Init /\ [][HoldNext]_vars

\* digital zero on the input for ever; the main loop keeps cycling
LiveNext ==
  \/ AcquireSampleChunk(2671, Block(RAW_ZERO, SAMPLES_PER_CHUNK))
  \/ CalculateVu
  \/ ProcessGDFT

\* the main loop goes on to its next call (main.cpp:343-360); every step of
\* LiveNext is such a step
MainLoopAdvances ==
  pc' = CASE pc = "acquire" -> "vu" [] pc = "vu" -> "gdft" [] OTHER -> "acquire"

LiveSpec == Init /\ [][LiveNext]_vars /\ WF_pc(MainLoopAdvances)

\* the engine with the integrity check before each cycle and stray stores
GuardNext ==
  \/ /\ cycles < MaxCycles
     /\ \E data \in FullBlocks({RAW_DC_LEVEL, RAW_LOUD}) :
          AcquireSampleChunk(1600, data)
  \/ CalculateVu
  \/ ProcessGDFT
  \/ CheckIntegrity
  \/ StrayWrite

GuardSpec == Init /\ [][GuardNext]_vars

\* the engine and the integrity check on a stored configuration
StoredConfigNext ==
  \/ \E sensitivity \in {0, 1, 400, 10000}, min_level \in {0, 1, 750},
        max_level \in {1, 30000}, sample_rate \in {12800, BOOT_SAMPLE_RATE} :
       LoadConfig(sensitivity, min_level, max_level, sample_rate)
  \/ /\ cycles < MaxCycles
     /\ \E data \in FullBlocks({RAW_DC_LEVEL, RAW_QUIET}) :
          AcquireSampleChunk(1600, data)
  \/ CalculateVu
  \/ ProcessGDFT
  \/ CheckIntegrity

StoredConfigSpec == Init /\ [][StoredConfigNext]_vars

\* the engine, the LED task and the encoder task side by side
ConfigNext ==
  \/ CheckKnobsTop
  \/ CheckKnobsBottom
  \/ /\ cycles < MaxCycles
     /\ knob_passes = cycles + 1
     /\ AcquireSampleChunk(1600, Block(RAW_DC_LEVEL, SAMPLES_PER_CHUNK))
  \/ CalculateVu
  \/ ProcessGDFT
  \/ LedSecondaryApply
  \/ LedSecondaryRestore
  \/ LedHdrBoost
  \/ LedBrightness
  \/ \E secondaryMode \in BOOLEAN : CheckEncoders(90, secondaryMode)

ConfigSpec == Init /\ [][ConfigNext]_vars

\* the bin table computed for each sample rate, valid or not, and a pass of
\* the bin loop over it
SampleRates == {0, 8000, 16000, 22050, 32000, 44100, 48000}

GoertzelInit ==
  \E rate \in SampleRates :
    InitWith(rate) /\ noise_samples = Profile(<<65536>>)

GoertzelNext ==
  \/ PrecomputeBin
  \/ \E magnitude \in {0, 1000} : GdftBin(magnitude)

GoertzelSpec == GoertzelInit /\ [][GoertzelNext]_vars

\* the callers of i2s_read, a source that may or may not deliver, and a
\* clock that keeps ticking
ReadNext ==
  \/ \E r \in Sources : ReadBegin(r)
  \/ \E r \in Sources : ReadArrive(r)
  \/ ReadTick

ReadSpec == Init /\ [][ReadNext]_vars /\ WF_source_reads(ReadTick)

\* a quiet room up to and past the wrap of the microsecond clock, with one
\* loud block allowed to break the extended silence in the last cycles before
\* the wrap
WrapWindow == 45

WrapNext ==
  \/ \E data \in FullBlocks({RAW_DC_LEVEL, RAW_LOUD}) :
       /\ \/ data = Block(RAW_DC_LEVEL, SAMPLES_PER_CHUNK)
          \/ silence /\ t_now >= T_NOW_PERIOD - WrapWindow * 2671
       /\ AcquireSampleChunk(2671, data)
  \/ CalculateVu
  \/ ProcessGDFT

WrapSpec == Init /\ [][WrapNext]_vars

\* the encoder task and the main loop's check_settings
SettingsSpec ==
  /\ Init
  /\ [][SettingsTick \/ EncoderWrite \/ EncoderActivity \/ CheckSettings]_vars

\* the encoder task with a module that fails and comes back; the task calls
\* check_encoders again and again
EncoderSpec ==
  /\ Init
  /\ [][\/ InitEncoders
        \/ \E reading \in {"none", "turn", "glitch"} :
             CheckEncodersHealth(reading)
        \/ \E write_success \in BOOLEAN : UpdateEncoderLeds(write_success)
        \/ DeviceToggle]_vars
  /\ WF_vars(InitEncoders)
  /\ WF_vars(\E reading \in {"none", "turn", "glitch"} :
               CheckEncodersHealth(reading))

\* write calls on one path under every outcome of the LittleFS calls
SafeFileSpec ==
  /\ Init
  /\ [][\E ok \in [{"open", "header", "data", "cleanup", "remove_backup",
                     "backup", "commit", "restore"} -> BOOLEAN] :
          SafeFileWrite(ok)]_vars

\* getHistoryFrame with small and large offsets, between the cycles of the
\* engine that advance the history index
HistorySpec ==
  /\ Init
  /\ [][\/ /\ cycles < MaxCycles
           /\ AcquireSampleChunk(1600, Block(RAW_DC_LEVEL, SAMPLES_PER_CHUNK))
        \/ CalculateVu
        \/ ProcessGDFT
        \/ \E frame_offset \in (0 .. 9) \cup {127, 128, 254, 255} :
             GetHistoryFrame(frame_offset)]_vars

\* the loops of one bin on every window of up to MaxWindow samples
GoertzelLoopSpec ==
  /\ Init
  /\ [][\/ /\ goertzel_q.samples = << >>
           /\ \E len \in 0 .. MaxWindow :
                \E samples \in [1 .. len -> {-32768, -3, 32767}] :
                  \E coeff \in {-46341, 25080, 65534} :
                    GoertzelStart(samples, coeff)
        \/ UnrolledIteration
        \/ RemainderIteration]_vars

\* ms of a short cycle next to the wrap of t_now
WrapStep == 700

\* the quiet room with one loud block before the wrap, short cycles with
\* quiet or loud blocks in the last 2671 ms before the wrap, and the cycles
\* up to the first one that finds t_now behind the last zone change
WrapDwellSpec ==
  /\ Init
  /\ [][\/ \E data \in FullBlocks({RAW_DC_LEVEL, RAW_LOUD}) :
             /\ t_now >= last_state_change_time
             /\ \/ data = Block(RAW_DC_LEVEL, SAMPLES_PER_CHUNK)
                \/ silence /\ t_now >= T_NOW_PERIOD - WrapWindow * 2671
             /\ AcquireSampleChunk(2671 - (t_now % 2671), data)
        \/ \E data \in FullBlocks({RAW_DC_LEVEL, RAW_LOUD}) :
             /\ t_now >= T_NOW_PERIOD - 2671
             /\ AcquireSampleChunk(WrapStep, data)
        \/ CalculateVu
        \/ ProcessGDFT]_vars

\* the bin loop with a magnitude in the first and the last bin, the follower
\* pass of these two bins, and check_knobs
FollowerNext ==
  \/ PrecomputeBin
  \/ \E magnitude \in {0, 1, 4} :
       /\ magnitude = 0 \/ goertzel_i \in {0, NUM_FREQS - 1}
       /\ GdftBin(magnitude)
  \/ goertzel_i \in {1, 0} /\ FollowBin
  \/ CheckKnobsTop
  \/ CheckKnobsBottom

FollowerSpec == Init /\ [][FollowerNext]_vars

\* acquire_sample_chunk on stored chunk sizes
ChunkSpec ==
  /\ Init
  /\ [][\/ \E n \in {0, 1, 64, 128, 256, 512, 1023, 1024, 1025, 2048, 4095,
                     4096, 4097, 65535} : LoadChunkConfig(n)
        \/ AcquireIndexing]_vars

\* bins of the profile that hold a value other than 0.0
NoiseBins == 2

\* SQ15x16 internal values: 0, the smallest step, 1.0, -1.5, the largest
\* value of 24 bits, two values of 25 bits and the largest value of the type
NoiseLevels ==
  {0, 1, 65536, -98304, 16777215, 16777217, 16777219, 2147483647}

NoiseInit ==
  /\ InitWith(BOOT_SAMPLE_RATE)
  /\ \E levels \in [1 .. NoiseBins -> NoiseLevels] :
       noise_samples = Profile(levels)

NoiseNext ==
  \/ SaveAmbientNoiseCalibration
  \/ LoadAmbientNoiseCalibration

NoiseSpec == NoiseInit /\ [][NoiseNext]_vars

----------------------------------------------------------------------------
(* Properties *)

\* C1: with calibration complete and timestamps that do not go back, a change
\* of sweet_spot_state comes at least MIN_STATE_DURATION_MS after the
\* previous change, whose time last_state_change_time holds; an input that
\* crosses the thresholds sooner produces no transition.
C1_DwellBetweenChanges ==
  [][(/\ noise_complete
      /\ sweet_spot_state' # sweet_spot_state
      /\ t_now' >= last_state_change_time)
     => /\ t_now' - last_state_change_time >= MIN_STATE_DURATION_MS
        /\ last_state_change_time' = t_now']_vars

\* the zone has left Normal and come back: two changes have been committed
C1_ChangedTwice ==
  /\ sweet_spot_state = 0
  /\ last_state_change_time >= 2 * MIN_STATE_DURATION_MS

\* C2: while AGC stays enabled the silence gate is released only after 10
\* consecutive cycles at or above the threshold. A gate that is asserted with
\* the previous cycle below the threshold (silence_counter at the debounce
\* count or above) has seen no such cycle yet, so the next calculate_vu must
\* leave it asserted.
C2_ReleaseIsDebounced ==
  [][(/\ AGC_ENABLED
      /\ SILENCE_GATE_ACTIVE
      /\ silence_counter >= SILENCE_DEBOUNCE)
     => SILENCE_GATE_ACTIVE']_vars

\* C3: a frame of the LED task that has read the VU level and the standby
\* scale has read values written by one and the same engine cycle.
C3_FrameReadsOneCycle ==
  (led_frames > 0 /\ led_pc = "hdr_boost")
    => led_obs.vu_cycle = led_obs.scale_cycle

\* C4: AGC_GAIN lies within [0.5, 8.0] after every calculate_vu, with AGC
\* enabled or disabled.
C4_GainWithinClamp ==
  AGC_GAIN_MIN <= AGC_GAIN /\ AGC_GAIN <= AGC_GAIN_MAX

\* calculate_vu has driven the gain up to the ceiling of the clamp
C4_GainAtCeiling ==
  pc = "gdft" /\ AGC_ENABLED /\ AGC_GAIN = AGC_GAIN_MAX

\* C5: with AGC enabled one calculate_vu call changes AGC_GAIN by at most
\* 0.05, and the new gain lies between the old gain and the clamped target.
C5_GainSlewLimited ==
  [][(pc = "vu" /\ pc' = "gdft" /\ AGC_ENABLED)
     => LET target == DesiredGain(rolling_rms')
        IN  /\ Abs(AGC_GAIN' - AGC_GAIN) <= AGC_SLEW
            /\ Min(AGC_GAIN, target) <= AGC_GAIN'
            /\ AGC_GAIN' <= Max(AGC_GAIN, target)]_vars

\* calculate_vu has made one full slew step from the initial gain
C5_SteppedBySlew ==
  pc = "gdft" /\ AGC_ENABLED /\ AGC_GAIN = AGC_GAIN_UNITY + AGC_SLEW

\* C6: with calibration complete and the default configuration, once every
\* raw block is all-zero the zone eventually becomes Silent.
C6_ZeroInputReachesSilent ==
  (/\ cycles > 0
   /\ noise_complete
   /\ samples_raw = Block(RAW_ZERO, SAMPLES_PER_CHUNK))
    ~> (sweet_spot_state = -1)

\* C7: every acquire_sample_chunk call, calibrating or not, leaves
\* sample_window shifted left by one chunk with the cycle's waveform appended.
C7_WindowAdvancesEveryCycle ==
  [][(pc = "acquire" /\ pc' = "vu")
     => sample_window' = ShiftAppend(sample_window, waveform')]_vars

\* C8: in the cycle that commits the entry into Silent the floor tracker ends
\* at the reset value if the threshold exceeds the raw peak by more than the
\* deadband, and otherwise keeps the value it had before the cycle.
C8_TrackerOnSilentEntry ==
  [][(sweet_spot_state # -1 /\ sweet_spot_state' = -1)
     => IF DeadbandMet(ThresholdSilence(min_silent_level_tracker),
                       max_waveform_val_raw')
        THEN min_silent_level_tracker' = agc_floor_reset
        ELSE min_silent_level_tracker' = min_silent_level_tracker]_vars

C10_ShortReadCounted ==
  [][(pc = "acquire" /\ pc' = "vu" /\ bytes_read' < 4 * SAMPLES_PER_CHUNK)
     => i2s_underruns' = i2s_underruns + 1]_vars

\* C11: in a cycle whose read delivers fewer bytes than requested, every raw
\* sample the conditioner processes beyond the delivered bytes is zero.
C11_ShortReadZeroFilled ==
  [][(pc = "acquire" /\ pc' = "vu" /\ bytes_read' < 4 * SAMPLES_PER_CHUNK)
     => \A i \in ChunkIdx : 4 * i > bytes_read' => samples_raw'[i] = 0]_vars

\* C12: a periodic integrity check that finds a guard mismatch zeroes the
\* guarded buffers and increments the corruption counter in that same check.
C12_MismatchRepairedAndCounted ==
  [][(guard_initialized /\ last_guard_check' # last_guard_check
      /\ ~RawStateValid)
     => /\ corruption_count' = corruption_count + 1
        /\ samples_raw' = Zeros(SAMPLES_PER_CHUNK)
        /\ waveform_history' = [f \in 0 .. 3 |-> Zeros(SAMPLES_PER_CHUNK)]]_vars

\* C13: no step of the LED task changes the configuration the engine reads
\* or the calibration state.
C13_LedTaskLeavesEngineState ==
  [][led_pc' # led_pc
     => /\ CONFIG' = CONFIG
        /\ noise_complete' = noise_complete
        /\ noise_iterations' = noise_iterations]_vars

\* C14: the configuration the engine reads does not change within one pass
\* of the main loop: the two results of a completed check_knobs come from
\* one value of CONFIG.MOOD.
C14_KnobsReadOneMood ==
  (knob_pc = "top" /\ knob_passes > 0)
    => \E mood \in 0 .. 1000 :
         /\ smoothing_follower = SmoothingFollower(SmoothingTopHalf(mood))
         /\ smoothing_exp_average = SmoothingExpAverage(mood)

\* C15: within one cycle the engine writes in the order conditioning, GDFT
\* magnitudes, follower, AGC, VU, zone state: a step that writes the zone
\* state finds the cycle's VU level already written.
C15_ZoneWrittenAfterVu ==
  [][sweet_spot_state' # sweet_spot_state => VuWrittenBy = cycles + 1]_vars

\* C16: the new rolling RMS does not depend on the AGC gain of the cycle: a
\* cycle with the same raw samples, DC offset, sensitivity and prior rolling
\* RMS at any other gain gives the same new rolling RMS.
C16_RollingRmsIgnoresGain ==
  [][(pc = "vu" /\ pc' = "gdft" /\ AGC_ENABLED /\ noise_complete)
     => \A gain \in {AGC_GAIN_MIN, AGC_GAIN_UNITY, AGC_GAIN_MAX} :
          rolling_rms' =
            NextRollingRms(rolling_rms,
                           RmsFixed(ConditionedFixedPoint(samples_raw, CONFIG,
                                                          gain)))]_vars

\* C17: for a bin whose window length is zero precompute_goertzel_constants
\* divides nothing by that length and stores a normalization factor of zero,
\* and the bin's normalized magnitude is zero.
C17_ZeroWindowNoDivision ==
  /\ \A i \in 0 .. NUM_FREQS - 1 :
       ((goertzel_pc = "gdft" \/ i < goertzel_i)
        /\ frequencies[i].block_size = 0)
         => /\ frequencies[i].inv_block_size_half = 0
            /\ frequencies[i].block_size_recip # FLOAT_INF
            /\ frequencies[i].window_mult # FLOAT_INF
  /\ (goertzel_pc = "gdft" /\ gdft_n = 0) => magnitude_normalized = 0

\* C18: at every supported sample rate the computed table gives each of the
\* NUM_FREQS bins a block_size and a block_size_optimized above 0 and at most
\* the history length.
C18_WindowsValid ==
  (goertzel_pc = "gdft" /\ IsValidSampleRate(CONFIG.SAMPLE_RATE))
    => \A i \in 0 .. NUM_FREQS - 1 :
         /\ frequencies[i].block_size > 0
         /\ frequencies[i].block_size <= GOERTZEL_HISTORY_LENGTH
         /\ frequencies[i].block_size_optimized > 0
         /\ frequencies[i].block_size_optimized <= GOERTZEL_HISTORY_LENGTH

\* the table is complete at 48 kHz, where the lowest bin is held at the
\* history length and the highest bin has the shortest window
C18_TableCompleteAtCap ==
  /\ goertzel_pc = "gdft"
  /\ CONFIG.SAMPLE_RATE = 48000
  /\ frequencies[0].block_size = GOERTZEL_HISTORY_LENGTH
  /\ frequencies[NUM_FREQS - 1].block_size_optimized > 0

\* C19: the normalization factor GDFT_optimized applies to a bin is the one
\* of the window length its loop ran over.
C19_NormalizedByIteratedWindow == gdft_inv = InvBlockSizeHalf(gdft_n)

\* C20: every read of the sample source returns within a bounded time,
\* even if the source never delivers.
C20_EveryReadReturns ==
  \A r \in Sources : source_reads[r].blocked ~> ~source_reads[r].blocked

\* C21: a cycle that commits a zone transition enters Silent iff the smoothed
\* peak is at or below the silence threshold, Loud iff it is above it and at
\* or above SWEET_SPOT_MAX_LEVEL, and Normal otherwise; the threshold is the
\* floor tracker clamped to [10, 30000], times 0.01, clamped to [0.5, 100].
C21_CommittedZoneMatchesPeak ==
  [][(pc = "acquire" /\ pc' = "vu" /\ sweet_spot_state' # sweet_spot_state)
     => LET floor == Clamp(min_silent_level_tracker, 10 * 65536, 30000 * 65536)
            hundredth == (floor \div 65536) * 10
                           + ((floor % 65536) * 10) \div 65536
            threshold == Clamp(hundredth, 500, 100000)
            peak == max_waveform_val_raw_smooth'
            loud == peak >= CONFIG.SWEET_SPOT_MAX_LEVEL * 1000
        IN  /\ (sweet_spot_state' = -1) <=> (peak <= threshold)
            /\ (sweet_spot_state' = 1) <=> (peak > threshold /\ loud)
            /\ (sweet_spot_state' = 0) <=> (peak > threshold /\ ~loud)]_vars

\* a cycle has just committed the transition into Loud
C21_JustEnteredLoud ==
  /\ pc = "vu"
  /\ sweet_spot_state = 1
  /\ last_state_change_time = t_now

\* C22: a cycle ends with the extended-silence flag set only in the Silent
\* zone, the flag rises only when 10000 ms have passed since the later of the
\* entry into Silent and the last loud peak, and a cycle whose raw peak is
\* above 1.2 x SWEET_SPOT_MIN_LEVEL ends with the flag clear.
C22_ExtendedSilenceAfterTenSeconds ==
  [][(pc = "acquire" /\ pc' = "vu" /\ noise_complete)
     => LET since == silence_switched'
            elapsed == IF t_now' >= since THEN t_now' - since
                       ELSE t_now' + T_NOW_PERIOD - since
        IN  /\ silence' => sweet_spot_state' = -1
            /\ (silence' /\ ~silence) => elapsed >= EXTENDED_SILENCE_MS
            /\ max_waveform_val_raw' * 5 > CONFIG.SWEET_SPOT_MIN_LEVEL * 6
                 => ~silence']_vars


C24_CalibrationBypassesZoneAndFloor ==
  [][~noise_complete
     => /\ (pc = "acquire" /\ pc' = "vu")
           => /\ sweet_spot_state' = sweet_spot_state
              /\ min_silent_level_tracker' = min_silent_level_tracker
              /\ silence' = silence
              /\ silent_scale' = 1000
        /\ (pc = "vu" /\ pc' = "gdft")
           => LET rms == RmsFixed(waveform_fixed_point)
                  level == IF SILENCE_GATE_ACTIVE' THEN 0 ELSE rms
                  scaled == ((level * 3) \div 2) * 100
              IN  /\ audio_vu_level' = level
                  /\ CONFIG' = [CONFIG EXCEPT !.VU_LEVEL_FLOOR =
                                  IF scaled > @ THEN scaled ELSE @]]_vars

C24_FloorRaisedWhileCalibrating ==
  /\ ~noise_complete
  /\ pc = "gdft"
  /\ silent_scale = 1000
  /\ audio_vu_level > 0
  /\ CONFIG.VU_LEVEL_FLOOR = ((audio_vu_level * 3) \div 2) * 100


\* C25: with calibration complete, after every calculate_vu the VU level is
\* within [0, 1], and the floor it was rescaled by is at most 0.99, so the
\* divisor 1 - floor is positive.
C25_VuLevelWithinUnitRange ==
  [][(pc = "vu" /\ pc' = "gdft" /\ noise_complete)
     => /\ audio_vu_level' >= 0
        /\ audio_vu_level' <= 65536
        /\ CONFIG'.VU_LEVEL_FLOOR <= VU_FLOOR_CAP
        /\ 6553600 - CONFIG'.VU_LEVEL_FLOOR > 0]_vars

C25_RescaledAboveFloor ==
  /\ noise_complete
  /\ pc = "gdft"
  /\ CONFIG.VU_LEVEL_FLOOR > 0
  /\ audio_vu_level > 0
  /\ audio_vu_level > RmsFixed(waveform_fixed_point) - CONFIG.VU_LEVEL_FLOOR \div 100


\* C26: in every cycle in which the silence gate is asserted, the VU level
\* that calculate_vu produces is exactly zero, whatever the RMS of the
\* waveform and whether or not calibration is complete.
C26_GatedVuIsZero ==
  [][(pc = "vu" /\ pc' = "gdft" /\ SILENCE_GATE_ACTIVE')
     => audio_vu_level' = 0]_vars

C26_GatedWhileWaveformLoud ==
  /\ pc = "gdft"
  /\ SILENCE_GATE_ACTIVE
  /\ ~noise_complete
  /\ RmsFixed(waveform_fixed_point) > 0
  /\ audio_vu_level = 0


\* C27: while AGC_ENABLED is false, every calculate_vu leaves AGC_GAIN at 1.0
\* and SILENCE_GATE_ACTIVE false, and the conditioner applies no gain: the
\* waveform is the clipped pre-gain sample.
C27_DisabledAgcIsBypassed ==
  [][~AGC_ENABLED
     => /\ (pc = "vu" /\ pc' = "gdft")
           => AGC_GAIN' = 1000 /\ ~SILENCE_GATE_ACTIVE'
        /\ (pc = "acquire" /\ pc' = "vu")
           => \A i \in 1 .. SAMPLES_PER_CHUNK :
                LET pre == ((samples_raw'[i] \div 16384) - CONFIG.DC_OFFSET)
                             * CONFIG.SENSITIVITY
                    sample == IF pre >= 0 THEN pre \div 1000
                              ELSE -((-pre) \div 1000)
                IN  waveform'[i] = IF sample > 32767 THEN 32767
                                   ELSE IF sample < -32767 THEN -32767
                                   ELSE sample]_vars

C27_GainBackAtUnity ==
  /\ ~AGC_ENABLED
  /\ pc = "gdft"
  /\ rolling_rms # ROLLING_RMS_INIT
  /\ max_waveform_val_raw > 0
  /\ AGC_GAIN = 1000
  /\ ~SILENCE_GATE_ACTIVE


C29_InvalidRateReplacedByDefault ==
  [][(guard_initialized /\ last_guard_check' # last_guard_check
        /\ ~IsValidSampleRate(CONFIG.SAMPLE_RATE))
     => CONFIG'.SAMPLE_RATE = DefaultConfig.SAMPLE_RATE]_vars


\* C30: save_ambient_noise_calibration followed by
\* load_ambient_noise_calibration restores every noise_samples[i] to exactly
\* the value it had when saved, the file holding NUM_FREQS consecutive 4-byte
\* floats in bin order.
C30_LoadRestoresSavedProfile ==
  [][(noise_pc = "load" /\ noise_pc' = "save")
     => /\ Len(noise_file) = 4 * NUM_FREQS
        /\ noise_samples' = noise_samples]_vars


\* C31: every follower update moves mag_followers[i] toward the new
\* normalized magnitude without passing it: by half the gap when the
\* magnitude is above the follower, by the fraction
\* 0.0025 + 0.025 * smoothing_exp_average of the gap when it is below, so
\* the new value lies between the old value and the magnitude.
C31_FollowerMovesWithoutOvershoot ==
  [][follower_updates' # follower_updates
     => \A i \in 0 .. NUM_FREQS - 1 :
          LET old == mag_followers[i]
              new == mag_followers'[i]
              m == magnitude_normalized
          IN  \/ new = old /\ (i # (goertzel_i + NUM_FREQS - 1) % NUM_FREQS
                                 \/ m = old
                                 \/ (m < old /\ (old - m) * 25 < 10000))
              \/ /\ i = (goertzel_i + NUM_FREQS - 1) % NUM_FREQS
                 /\ m > old
                 /\ new = old + (m - old) \div 2
                 /\ new <= m
              \/ /\ i = (goertzel_i + NUM_FREQS - 1) % NUM_FREQS
                 /\ m < old
                 /\ new < old
                 /\ new >= m
                 /\ (old - new) * 40 <= (old - m)
                 /\ (old - new + 1) * 400 > (old - m)]_vars

C31_FollowerDecayedWithMood ==
  /\ follower_updates > 1
  /\ smoothing_exp_average > 0
  /\ mag_followers[NUM_FREQS - 1] > magnitude_normalized
  /\ mag_followers[NUM_FREQS - 1] < 190476
  /\ goertzel_i = 0


\* C32: for every configured SAMPLES_PER_CHUNK, a cycle of
\* acquire_sample_chunk uses only indices inside the raw sample buffer,
\* waveform[] and the history frame (1024 entries each) and inside
\* sample_window[] (SAMPLE_HISTORY_LENGTH entries).
C32_IndicesWithinCapacity ==
  /\ chunk_touched.chunk_hi < CHUNK_CAPACITY
  /\ chunk_touched.window_lo >= 0
  /\ chunk_touched.window_hi < GOERTZEL_HISTORY_LENGTH


\* C33: a value the encoder check writes to CONFIG.MOOD is not lost: also
\* when the write falls while the LED task renders the secondary strip,
\* CONFIG holds the encoder's value once the LED task has restored the
\* primary settings.
C33_EncoderWriteSurvivesRestore ==
  encoder_mood # -1 /\ led_pc # "restore" => CONFIG.MOOD = encoder_mood


\* C34: the dwell between zone transitions holds across the wrap-around of
\* t_now: a transition committed after the wrap comes at least
\* MIN_STATE_DURATION_MS of real time after the previous one, committed
\* before the wrap.
C34_DwellAcrossWrap ==
  [][(/\ noise_complete
      /\ sweet_spot_state' # sweet_spot_state
      /\ t_now' < last_state_change_time)
     => t_now' + T_NOW_PERIOD - last_state_change_time
          >= MIN_STATE_DURATION_MS]_vars


\* C35: check_settings calls save_config only when no setting has been
\* changed during the 3000 ms before the call, under every interleaving of
\* the encoder task with the main loop.
C35_SaveAfterQuietPeriod ==
  save_gap # -1 => save_gap >= SAVE_DELAY_MS


\* C36: whenever the encoder module has become unavailable (failed init,
\* more than 5 communication errors, or a failed LED write), a later call of
\* check_encoders invokes attempt_rotate8_init.
C36_UnavailableLeadsToAttempt ==
  (rotate8.started /\ ~rotate8.available) ~> rotate8.reattempted


\* C37: once a write has returned OK, a read after any later write call,
\* successful or failed at any step, returns OK with the complete data of
\* that call if it returned OK and of the last successful call otherwise,
\* never partial data and never FILE_NOT_FOUND.
C37_ReadReturnsLastCommitted ==
  safe_fs.last_ok # 0
    => SafeFileRead(safe_fs) = [status |-> "OK", data |-> safe_fs.last_ok]


\* C38: AGC_FLOOR_INITIAL_RESET (65535.0) is representable in SQ15x16: the
\* value the deadband reset and the cap of the recovery put in
\* min_silent_level_tracker is 65535, and the tracker is never negative.
C38_ResetValueRepresentable ==
  /\ agc_floor_reset \div 65536 = 65535
  /\ min_silent_level_tracker >= 0


\* C39: for every frame_offset in 0 .. 255 and every history index,
\* getHistoryFrame returns a frame of waveform_history_: the index it
\* computes is the current index less the offset, wrapped into 0 .. 3.
C39_HistoryFrameInside ==
  /\ history_frame.idx \in 0 .. 3
  /\ history_frame.idx = (history_frame.index - history_frame.offset) % 4


\* C40: for every window length and every sample sequence, the unrolled
\* loop followed by the remainder loop leaves (q1, q2) equal to the state
\* that single steps of the recurrence q0 = (x >> 2) + ((coeff_q15 * q1) >> 15)
\* - q2; q2 := q1; q1 := q0 reach on the same samples.
C40_UnrolledEqualsSingleSteps ==
  /\ goertzel_q.q1 = goertzel_q.r1
  /\ goertzel_q.q2 = goertzel_q.r2

\* a window of 7 samples is done: one unrolled iteration and three single ones
C40_WindowOfSevenDone ==
  /\ Len(goertzel_q.samples) = 7
  /\ goertzel_q.n = 7
  /\ goertzel_q.q1 # 0
  /\ goertzel_q.q2 # goertzel_q.q1

====
